---------------------------- MODULE Spec2Model ----------------------------
(***************************************************************************)
(* A model of optres: the synchronous Option (Some / None) and Result      *)
(* (Ok / Err) variant types, the UnwrapError they throw, and the           *)
(* asynchronous wrappers AsyncOption and AsyncResult around a promise of   *)
(* an Option or Result.                                                    *)
(*                                                                         *)
(* Payloads are opaque to the library, so they are modelled as the small   *)
(* integers Vals; the JavaScript null is Null.  A method call is modelled  *)
(* by its completion: it returns a value or throws one, and it records the *)
(* callbacks it invoked.  A callback is a table from argument tuples to    *)
(* completions.                                                            *)
(***************************************************************************)
EXTENDS Integers, Sequences, FiniteSets, TLC

VARIABLES
    sync,   \* the synchronous call in progress: the method, its receiver, its arguments, its completion
    A,      \* the receiver wrapper of the asynchronous calls
    B,      \* a second wrapper: the operand optionB / resultB, or what a callback returns
    R       \* the asynchronous call in progress and the promise or wrapper it returned

vars == <<sync, A, B, R>>

\* No synchronous call is in progress; no asynchronous call is in progress; no
\* wrapper has been made; a promise that has not settled.
Idle == [op |-> "idle"]

NoCall == [op |-> "none"]

NoWrapper == [cls |-> "none"]

Pending == [st |-> "pending"]

\* Payload values are 0..MaxVal.
MaxVal == 1

Vals == 0..MaxVal

\* The null that None#unwrap hands to UnwrapError.
Null == -1

\* The promise object a callback returned, as a value that has not been
\* awaited: a reference, different from every payload.
PromiseRef == -2

(***************************************************************************)
(* Completions of synchronous code.                                        *)
(***************************************************************************)
Return(v) == [kind |-> "return", val |-> v]

Throw(e) == [kind |-> "throw", val |-> e]

\* Calling the callback fn, passed under the name h, with the arguments args.
Invoke(h, fn, args) ==
    [kind |-> fn[args].kind, val |-> fn[args].val, calls |-> <<[fn |-> h, args |-> args]>>]

\* A completion that invoked no callback.
Done(c) == [kind |-> c.kind, val |-> c.val, calls |-> <<>>]

\* What a lambda hands back to its caller: the completion without the log.
Outcome(c) == [kind |-> c.kind, val |-> c.val]

(***************************************************************************)
(* UnwrapError, and the constructors of the four variants.                 *)
(***************************************************************************)
UnwrapError(message, error) ==
    [name |-> "UnwrapError", message |-> message, error |-> error]

some(value) == [tag |-> "Some", value |-> value]

none == [tag |-> "None"]

ok(value) == [tag |-> "Ok", value |-> value]

err(error) == [tag |-> "Err", error |-> error]

Options == {none} \cup {some(v) : v \in Vals}

Results == {ok(v) : v \in Vals} \cup {err(e) : e \in Vals}

\* The messages a caller passes to unwrap and unwrapErr.  The argument list of
\* these methods is <<>> (the default message applies) or <<message>>.
Messages == {"m1", "m2"}

MessageArgs == {<<>>} \cup {<<m>> : m \in Messages}

\* The errors the callbacks of the synchronous calls throw.
CallbackErrors == {0}

\* The callbacks of a given argument list that return a value of rets or throw.
Callbacks(argss, rets) ==
    [argss -> {Return(x) : x \in rets} \cup {Throw(e) : e \in CallbackErrors}]

UnaryFns(rets) == Callbacks({<<v>> : v \in Vals}, rets)

NullaryFns(rets) == Callbacks({<<>>}, rets)

(***************************************************************************)
(* Some                                                                    *)
(***************************************************************************)
Some_isSome(self) == Done(Return(TRUE))

Some_isNone(self) == Done(Return(FALSE))

Some_unwrap(self, args) == Done(Return(self.value))

\* A faulty map that forgets the value: it breaks the identity law.
Some_map_forgets(self, fn) == Done(Return(none))

Some_map(self, fn) ==
    LET c == Invoke("fn", fn, <<self.value>>)
    IN  IF c.kind = "throw" THEN c ELSE [c EXCEPT !.val = some(c.val)]

\* A faulty andThen that keeps the receiver when fn returns None: it is not
\* associative.
Some_andThen_keeps(self, fn) ==
    LET c == Invoke("fn", fn, <<self.value>>)
    IN  IF c.kind = "return" /\ c.val = none THEN [c EXCEPT !.val = self] ELSE c

Some_andThen(self, fn) == Invoke("fn", fn, <<self.value>>)

\* A faulty match that runs the None handler before the Some handler.
Some_match_both(self, matcher) ==
    LET n == Invoke("None", matcher.None, <<>>)
        c == Invoke("Some", matcher.Some, <<self.value>>)
    IN  [c EXCEPT !.calls = n.calls \o c.calls]

Some_match(self, matcher) == Invoke("Some", matcher.Some, <<self.value>>)

Some_isSomeAnd(self, fn) == Invoke("fn", fn, <<self.value>>)

Some_isNoneOr(self, fn) == Invoke("fn", fn, <<self.value>>)

Some_unwrapOr(self, defaultValue) == Done(Return(self.value))

Some_unwrapOrElse(self, fn) == Done(Return(self.value))

\* fn(this.value); return this;
Some_inspect(self, fn) ==
    LET c == Invoke("fn", fn, <<self.value>>)
    IN  IF c.kind = "throw" THEN c ELSE [c EXCEPT !.val = self]

\* A faulty mapOr that answers with the default without calling fn.
Some_mapOr_default(self, defaultValue, fn) == Done(Return(defaultValue))

Some_mapOr(self, defaultValue, fn) == Invoke("fn", fn, <<self.value>>)

Some_mapOrElse(self, defaultFn, someFn) == Invoke("someFn", someFn, <<self.value>>)

\* A faulty okOr that puts the value on the error side.
Some_okOr_asErr(self, error) == Done(Return(err(self.value)))

Some_okOr(self, error) == Done(Return(ok(self.value)))

Some_and(self, optionB) == Done(Return(optionB))

Some_filter(self, fn) ==
    LET c == Invoke("fn", fn, <<self.value>>)
    IN  IF c.kind = "throw" THEN c
        ELSE [c EXCEPT !.val = IF c.val THEN some(self.value) ELSE none]

Some_or(self, optionB) == Done(Return(self))

Some_orElse(self, fn) == Done(Return(self))

\* A faulty xor that keeps the receiver whatever optionB is.
Some_xor_keeps(self, optionB) == Done(Return(some(self.value)))

\* optionB.match({ Some: () => none(), None: () => some(this.value) })
Some_xor(self, optionB) ==
    IF optionB.tag = "Some" THEN Done(Return(none)) ELSE Done(Return(some(self.value)))

\* optionB.match({ Some: (valueB) => some([this.value, valueB]), None: () => none() })
Some_zip(self, optionB) ==
    IF optionB.tag = "Some" THEN Done(Return(some(<<self.value, optionB.value>>)))
    ELSE Done(Return(none))

\* A faulty zipWith that calls fn before it looks at optionB.
Some_zipWith_eager(self, optionB, fn) ==
    LET valueB == IF optionB.tag = "Some" THEN optionB.value ELSE self.value
        c == Invoke("fn", fn, <<self.value, valueB>>)
    IN  IF c.kind = "throw" THEN c
        ELSE [c EXCEPT !.val = IF optionB.tag = "Some" THEN some(c.val) ELSE none]

\* optionB.match({ Some: (valueB) => some(fn(this.value, valueB)), None: () => none() })
Some_zipWith(self, optionB, fn) ==
    IF optionB.tag = "Some"
    THEN LET c == Invoke("fn", fn, <<self.value, optionB.value>>)
         IN  IF c.kind = "throw" THEN c ELSE [c EXCEPT !.val = some(c.val)]
    ELSE Done(Return(none))

(***************************************************************************)
(* None                                                                    *)
(***************************************************************************)
None_isSome(self) == Done(Return(FALSE))

\* A faulty isNone that answers as isSome does.
None_isNone_asSome(self) == Done(Return(FALSE))

None_isNone(self) == Done(Return(TRUE))

None_unwrap(self, args) ==
    LET message == IF args = <<>> THEN "Called Option#unwrap on a None value" ELSE args[1]
    IN  Done(Throw(UnwrapError(message, Null)))

None_map(self, fn) == Done(Return(none))

None_andThen(self, fn) == Done(Return(none))

None_match(self, matcher) == Invoke("None", matcher.None, <<>>)

None_isSomeAnd(self, fn) == Done(Return(FALSE))

\* A faulty isNoneOr that answers for a None as isSomeAnd does.
None_isNoneOr_asAnd(self, fn) == Done(Return(FALSE))

None_isNoneOr(self, fn) == Done(Return(TRUE))

None_unwrapOr(self, defaultValue) == Done(Return(defaultValue))

None_unwrapOrElse(self, fn) == Invoke("fn", fn, <<>>)

None_inspect(self, fn) == Done(Return(self))

None_mapOr(self, defaultValue, fn) == Done(Return(defaultValue))

None_mapOrElse(self, defaultFn, someFn) == Invoke("defaultFn", defaultFn, <<>>)

None_okOr(self, error) == Done(Return(err(error)))

None_and(self, optionB) == Done(Return(none))

None_filter(self, fn) == Done(Return(none))

\* A faulty or that stays a None whatever optionB is.
None_or_keeps(self, optionB) == Done(Return(none))

None_or(self, optionB) == Done(Return(optionB))

None_orElse(self, fn) == Invoke("fn", fn, <<>>)

\* optionB.match({ Some: (valueB) => some(valueB), None: () => none() })
None_xor(self, optionB) ==
    IF optionB.tag = "Some" THEN Done(Return(some(optionB.value))) ELSE Done(Return(none))

None_zip(self, optionB) == Done(Return(none))

None_zipWith(self, optionB, fn) == Done(Return(none))

(***************************************************************************)
(* Ok                                                                      *)
(***************************************************************************)
Ok_isOk(self) == Done(Return(TRUE))

Ok_isErr(self) == Done(Return(FALSE))

Ok_toString(self) == "ok(" \o ToString(self.value) \o ")"

Ok_unwrap(self, args) == Done(Return(self.value))

Ok_unwrapErr(self, args) ==
    LET message == IF args = <<>> THEN "Expected error but got " \o Ok_toString(self)
                   ELSE args[1]
    IN  Done(Throw(UnwrapError(message, self.value)))

Ok_unwrapOr(self, defaultValue) == Done(Return(self.value))

Ok_match(self, matcher) == Invoke("Ok", matcher.Ok, <<self.value>>)

Ok_isOkAnd(self, fn) == Invoke("fn", fn, <<self.value>>)

Ok_isErrAnd(self, fn) == Done(Return(FALSE))

\* A faulty ok() that answers as err() does.
Ok_ok_asErr(self) == Done(Return(none))

Ok_ok(self) == Done(Return(some(self.value)))

Ok_err(self) == Done(Return(none))

Ok_map(self, fn) ==
    LET c == Invoke("fn", fn, <<self.value>>)
    IN  IF c.kind = "throw" THEN c ELSE [c EXCEPT !.val = ok(c.val)]

Ok_mapOr(self, defaultValue, fn) == Invoke("fn", fn, <<self.value>>)

Ok_mapOrElse(self, defaultFn, fn) == Invoke("fn", fn, <<self.value>>)

Ok_mapErr(self, fn) == Done(Return(ok(self.value)))

\* fn(this.value); return this;
Ok_inspect(self, fn) ==
    LET c == Invoke("fn", fn, <<self.value>>)
    IN  IF c.kind = "throw" THEN c ELSE [c EXCEPT !.val = self]

Ok_inspectErr(self, fn) == Done(Return(self))

Ok_unwrapOrElse(self, fn) == Done(Return(self.value))

Ok_and(self, resultB) == Done(Return(resultB))

Ok_andThen(self, fn) == Invoke("fn", fn, <<self.value>>)

\* A faulty chain that calls fn and returns the receiver's value again.
Ok_chain_wraps(self, fn) ==
    LET c == Invoke("fn", fn, <<self.value>>)
    IN  IF c.kind = "throw" THEN c ELSE [c EXCEPT !.val = ok(self.value)]

Ok_chain(self, fn) == Invoke("fn", fn, <<self.value>>)

Ok_or(self, resultB) == Done(Return(ok(self.value)))

Ok_orElse(self, fn) == Done(Return(ok(self.value)))

(***************************************************************************)
(* Err                                                                     *)
(***************************************************************************)
Err_isOk(self) == Done(Return(FALSE))

Err_isErr(self) == Done(Return(TRUE))

Err_toString(self) == "err(" \o ToString(self.error) \o ")"

\* A faulty unwrap that drops the error payload.
Err_unwrap_noPayload(self, args) ==
    LET message == IF args = <<>> THEN "Expected ok() but got " \o Err_toString(self)
                   ELSE args[1]
    IN  Done(Throw(UnwrapError(message, Null)))

Err_unwrap(self, args) ==
    LET message == IF args = <<>> THEN "Expected ok() but got " \o Err_toString(self)
                   ELSE args[1]
    IN  Done(Throw(UnwrapError(message, self.error)))

Err_unwrapErr(self, args) == Done(Return(self.error))

Err_unwrapOr(self, defaultValue) == Done(Return(defaultValue))

Err_match(self, matcher) == Invoke("Err", matcher.Err, <<self.error>>)

Err_isOkAnd(self, fn) == Done(Return(FALSE))

Err_isErrAnd(self, fn) == Invoke("fn", fn, <<self.error>>)

Err_ok(self) == Done(Return(none))

Err_err(self) == Done(Return(some(self.error)))

Err_map(self, fn) == Done(Return(err(self.error)))

Err_mapOr(self, defaultValue, fn) == Done(Return(defaultValue))

Err_mapOrElse(self, defaultFn, fn) == Invoke("defaultFn", defaultFn, <<self.error>>)

Err_mapErr(self, fn) ==
    LET c == Invoke("fn", fn, <<self.error>>)
    IN  IF c.kind = "throw" THEN c ELSE [c EXCEPT !.val = err(c.val)]

Err_inspect(self, fn) == Done(Return(err(self.error)))

\* fn(this.error); return err(this.error);
Err_inspectErr(self, fn) ==
    LET c == Invoke("fn", fn, <<self.error>>)
    IN  IF c.kind = "throw" THEN c ELSE [c EXCEPT !.val = err(self.error)]

Err_unwrapOrElse(self, fn) == Invoke("fn", fn, <<self.error>>)

Err_and(self, resultB) == Done(Return(err(self.error)))

Err_andThen(self, fn) == Done(Return(err(self.error)))

Err_chain(self, fn) == Done(Return(err(self.error)))

Err_or(self, resultB) == Done(Return(resultB))

Err_orElse(self, fn) == Invoke("fn", fn, <<self.error>>)

(***************************************************************************)
(* Iterators.  A generator function is given by the values its body       *)
(* yields; the generator object it returns hands them out one by one       *)
(* through next(), and then reports done.                                  *)
(***************************************************************************)
Generator(yields) == [yields |-> yields, pos |-> 0]

IteratorResult(value, done) == [value |-> value, done |-> done]

\* next() of the generator object g, and the generator object after it.
Generator_next(g) ==
    IF g.pos < Len(g.yields)
    THEN [result |-> IteratorResult(g.yields[g.pos + 1], FALSE), gen |-> [g EXCEPT !.pos = @ + 1]]
    ELSE [result |-> IteratorResult(Null, TRUE), gen |-> g]

\* *[Symbol.iterator]() { yield this.value; }
Some_iterator(self) == Generator(<<self.value>>)

\* *[Symbol.iterator]() {}
None_iterator(self) == Generator(<<>>)

Ok_iterator(self) == Generator(<<self.value>>)

Err_iterator(self) == Generator(<<>>)

(***************************************************************************)
(* Method dispatch on the variant: Option<T> = Some<T> | None<T>,          *)
(* Result<T, E> = Ok<T, E> | Err<T, E>.                                    *)
(***************************************************************************)
Option_isSome(o) == IF o.tag = "Some" THEN Some_isSome(o) ELSE None_isSome(o)

Option_isNone(o) == IF o.tag = "Some" THEN Some_isNone(o) ELSE None_isNone(o)

Option_unwrap(o, args) ==
    IF o.tag = "Some" THEN Some_unwrap(o, args) ELSE None_unwrap(o, args)

Option_map(o, fn) == IF o.tag = "Some" THEN Some_map(o, fn) ELSE None_map(o, fn)

Option_andThen(o, fn) ==
    IF o.tag = "Some" THEN Some_andThen(o, fn) ELSE None_andThen(o, fn)

Option_match(o, matcher) ==
    IF o.tag = "Some" THEN Some_match(o, matcher) ELSE None_match(o, matcher)

Option_isSomeAnd(o, fn) ==
    IF o.tag = "Some" THEN Some_isSomeAnd(o, fn) ELSE None_isSomeAnd(o, fn)

Option_isNoneOr(o, fn) ==
    IF o.tag = "Some" THEN Some_isNoneOr(o, fn) ELSE None_isNoneOr(o, fn)

Option_unwrapOr(o, defaultValue) ==
    IF o.tag = "Some" THEN Some_unwrapOr(o, defaultValue) ELSE None_unwrapOr(o, defaultValue)

Option_unwrapOrElse(o, fn) ==
    IF o.tag = "Some" THEN Some_unwrapOrElse(o, fn) ELSE None_unwrapOrElse(o, fn)

Option_inspect(o, fn) ==
    IF o.tag = "Some" THEN Some_inspect(o, fn) ELSE None_inspect(o, fn)

Option_mapOr(o, defaultValue, fn) ==
    IF o.tag = "Some" THEN Some_mapOr(o, defaultValue, fn) ELSE None_mapOr(o, defaultValue, fn)

Option_mapOrElse(o, defaultFn, someFn) ==
    IF o.tag = "Some" THEN Some_mapOrElse(o, defaultFn, someFn)
    ELSE None_mapOrElse(o, defaultFn, someFn)

Option_okOr(o, error) ==
    IF o.tag = "Some" THEN Some_okOr(o, error) ELSE None_okOr(o, error)

Option_and(o, optionB) ==
    IF o.tag = "Some" THEN Some_and(o, optionB) ELSE None_and(o, optionB)

Option_filter(o, fn) ==
    IF o.tag = "Some" THEN Some_filter(o, fn) ELSE None_filter(o, fn)

Option_or(o, optionB) ==
    IF o.tag = "Some" THEN Some_or(o, optionB) ELSE None_or(o, optionB)

Option_orElse(o, fn) ==
    IF o.tag = "Some" THEN Some_orElse(o, fn) ELSE None_orElse(o, fn)

Option_xor(o, optionB) ==
    IF o.tag = "Some" THEN Some_xor(o, optionB) ELSE None_xor(o, optionB)

Option_zip(o, optionB) ==
    IF o.tag = "Some" THEN Some_zip(o, optionB) ELSE None_zip(o, optionB)

Option_zipWith(o, optionB, fn) ==
    IF o.tag = "Some" THEN Some_zipWith(o, optionB, fn) ELSE None_zipWith(o, optionB, fn)

Result_isOk(r) == IF r.tag = "Ok" THEN Ok_isOk(r) ELSE Err_isOk(r)

Result_isErr(r) == IF r.tag = "Ok" THEN Ok_isErr(r) ELSE Err_isErr(r)

Result_unwrap(r, args) ==
    IF r.tag = "Ok" THEN Ok_unwrap(r, args) ELSE Err_unwrap(r, args)

Result_unwrapErr(r, args) ==
    IF r.tag = "Ok" THEN Ok_unwrapErr(r, args) ELSE Err_unwrapErr(r, args)

Result_unwrapOr(r, defaultValue) ==
    IF r.tag = "Ok" THEN Ok_unwrapOr(r, defaultValue) ELSE Err_unwrapOr(r, defaultValue)

Result_match(r, matcher) ==
    IF r.tag = "Ok" THEN Ok_match(r, matcher) ELSE Err_match(r, matcher)

Result_isOkAnd(r, fn) == IF r.tag = "Ok" THEN Ok_isOkAnd(r, fn) ELSE Err_isOkAnd(r, fn)

Result_isErrAnd(r, fn) == IF r.tag = "Ok" THEN Ok_isErrAnd(r, fn) ELSE Err_isErrAnd(r, fn)

Result_ok(r) == IF r.tag = "Ok" THEN Ok_ok(r) ELSE Err_ok(r)

Result_err(r) == IF r.tag = "Ok" THEN Ok_err(r) ELSE Err_err(r)

Result_map(r, fn) == IF r.tag = "Ok" THEN Ok_map(r, fn) ELSE Err_map(r, fn)

Result_mapOr(r, defaultValue, fn) ==
    IF r.tag = "Ok" THEN Ok_mapOr(r, defaultValue, fn) ELSE Err_mapOr(r, defaultValue, fn)

Result_mapOrElse(r, defaultFn, fn) ==
    IF r.tag = "Ok" THEN Ok_mapOrElse(r, defaultFn, fn) ELSE Err_mapOrElse(r, defaultFn, fn)

Result_mapErr(r, fn) == IF r.tag = "Ok" THEN Ok_mapErr(r, fn) ELSE Err_mapErr(r, fn)

Result_inspect(r, fn) == IF r.tag = "Ok" THEN Ok_inspect(r, fn) ELSE Err_inspect(r, fn)

Result_inspectErr(r, fn) ==
    IF r.tag = "Ok" THEN Ok_inspectErr(r, fn) ELSE Err_inspectErr(r, fn)

Result_unwrapOrElse(r, fn) ==
    IF r.tag = "Ok" THEN Ok_unwrapOrElse(r, fn) ELSE Err_unwrapOrElse(r, fn)

Result_and(r, resultB) == IF r.tag = "Ok" THEN Ok_and(r, resultB) ELSE Err_and(r, resultB)

Result_andThen(r, fn) == IF r.tag = "Ok" THEN Ok_andThen(r, fn) ELSE Err_andThen(r, fn)

Result_chain(r, fn) == IF r.tag = "Ok" THEN Ok_chain(r, fn) ELSE Err_chain(r, fn)

Result_or(r, resultB) == IF r.tag = "Ok" THEN Ok_or(r, resultB) ELSE Err_or(r, resultB)

Result_orElse(r, fn) == IF r.tag = "Ok" THEN Ok_orElse(r, fn) ELSE Err_orElse(r, fn)

Option_iterator(o) == IF o.tag = "Some" THEN Some_iterator(o) ELSE None_iterator(o)

Result_iterator(r) == IF r.tag = "Ok" THEN Ok_iterator(r) ELSE Err_iterator(r)

(***************************************************************************)
(* Promises.  A promise is pending, fulfilled with a value or rejected     *)
(* with a reason.                                                          *)
(***************************************************************************)
Fulfilled(v) == [st |-> "fulfilled", val |-> v]

Rejected(e) == [st |-> "rejected", val |-> e]

Settled(p) == p.st # "pending"

\* The reasons the promises handed to the wrappers reject with.
Reasons == Vals

(***************************************************************************)
(* The asynchronous calls.  R is the call in progress: the method op, its  *)
(* arguments, where its async function stands (pc), the callbacks it has   *)
(* invoked (calls), the promise a callback returned (fnp), the promise of  *)
(* the async function (inner) and what the caller holds (promise): the     *)
(* promise the method returned, or this.promise of the wrapper it returned.*)
(***************************************************************************)
\* A callback of the asynchronous calls returns a value, throws, or returns a
\* promise that settles later.
ReturnsPromise == [kind |-> "promise", val |-> PromiseRef]

AsyncFns(rets) ==
    {Return(x) : x \in rets} \cup {Throw(e) : e \in CallbackErrors} \cup {ReturnsPromise}

\* The callbacks that are not awaited: they return a value or throw.
SyncFns(rets) == {Return(x) : x \in rets} \cup {Throw(e) : e \in CallbackErrors}

\* Calling such a callback, passed under the name h, with the arguments args.
Call(h, fn, args) ==
    [kind |-> fn.kind, val |-> fn.val, calls |-> <<[fn |-> h, args |-> args]>>]

\* Where an async function stands after a step: it has returned x, it has
\* thrown e, or it is suspended at an await.
Resolved(x, calls) == [pc |-> "settled", inner |-> Fulfilled(x), calls |-> calls]

Failed(e, calls) == [pc |-> "settled", inner |-> Rejected(e), calls |-> calls]

Awaiting(what, calls) == [pc |-> what, inner |-> Pending, calls |-> calls]

\* A faulty await that suspends again on a promise that has settled.
Adopt_suspends(p, calls) == Awaiting("awaitThis", calls)

\* await p, or return p, p being a settled promise.
Adopt(p, calls) ==
    IF p.st = "rejected" THEN Failed(p.val, calls) ELSE Resolved(p.val, calls)

\* await c, or return c, c being what a callback call completed with.
Await(c) ==
    CASE c.kind = "return" -> Resolved(c.val, c.calls)
      [] c.kind = "throw" -> Failed(c.val, c.calls)
      [] OTHER -> Awaiting("awaitFn", c.calls)

(***************************************************************************)
(* AsyncOption.  Each method is given by what it does once this.promise    *)
(* has settled (this), and by how it resumes once the promise of its       *)
(* callback (fnp) or the promise of optionB (b) has settled.               *)
(***************************************************************************)
AsyncOption_match(this, Some(_), None) ==
    IF this.st = "rejected" THEN Failed(this.val, <<>>)
    ELSE IF Option_isSome(this.val).val THEN Some(Option_unwrap(this.val, <<>>).val)
    ELSE None

AsyncOption_match_user(this, matcher) ==
    AsyncOption_match(this,
        LAMBDA val : Await(Call("Some", matcher.Some, <<val>>)),
        Await(Call("None", matcher.None, <<>>)))

AsyncOption_match_resumed(this, matcher, fnp) == Adopt(fnp, <<>>)

AsyncOption_getOption(this) == Adopt(this, <<>>)

AsyncOption_unwrap(this) ==
    IF this.st = "rejected" THEN Failed(this.val, <<>>)
    ELSE Await(Option_unwrap(this.val, <<>>))

\* A faulty map that keeps the receiver's value when fn throws.
AsyncOption_map_keeps(this, fn) ==
    AsyncOption_match(this,
        LAMBDA val :
            LET c == Call("fn", fn, <<val>>)
            IN  CASE c.kind = "return" -> Resolved(some(c.val), c.calls)
                  [] c.kind = "throw" -> Resolved(some(val), c.calls)
                  [] OTHER -> Awaiting("awaitFn", c.calls),
        Resolved(none, <<>>))

AsyncOption_map(this, fn) ==
    AsyncOption_match(this,
        LAMBDA val :
            LET c == Call("fn", fn, <<val>>)
            IN  CASE c.kind = "return" -> Resolved(some(c.val), c.calls)
                  [] c.kind = "throw" -> Resolved(none, c.calls)
                  [] OTHER -> Awaiting("awaitFn", c.calls),
        Resolved(none, <<>>))

AsyncOption_map_resumed(this, fn, fnp) ==
    IF fnp.st = "rejected" THEN Resolved(none, <<>>) ELSE Resolved(some(fnp.val), <<>>)

AsyncOption_inspect(this, fn) ==
    AsyncOption_match(this,
        LAMBDA val :
            LET c == Call("fn", fn, <<val>>)
            IN  CASE c.kind = "return" -> Resolved(some(val), c.calls)
                  [] c.kind = "throw" -> Failed(c.val, c.calls)
                  [] OTHER -> Awaiting("awaitFn", c.calls),
        Resolved(none, <<>>))

AsyncOption_inspect_resumed(this, fn, fnp) ==
    IF fnp.st = "rejected" THEN Failed(fnp.val, <<>>)
    ELSE Resolved(some(this.val.value), <<>>)

\* The other definition of AsyncOption has
\*   inspect(fn) { this.promise.then((option) => option.inspect(fn)); return this; }
\* This is the promise that then() derives; what the method returns is this.
AsyncOption_inspect_then(this, fn) ==
    IF this.st = "rejected" THEN Failed(this.val, <<>>)
    ELSE Await(Option_inspect(this.val, [a \in {<<v>> : v \in Vals} |-> Outcome(fn)]))

AsyncOption_filter(this, fn) ==
    AsyncOption_match(this,
        LAMBDA val :
            LET c == Call("fn", fn, <<val>>)
            IN  CASE c.kind = "return" -> Resolved(IF c.val THEN some(val) ELSE none, c.calls)
                  [] c.kind = "throw" -> Failed(c.val, c.calls)
                  [] OTHER -> Awaiting("awaitFn", c.calls),
        Resolved(none, <<>>))

AsyncOption_filter_resumed(this, fn, fnp) ==
    IF fnp.st = "rejected" THEN Failed(fnp.val, <<>>)
    ELSE Resolved(IF fnp.val THEN some(this.val.value) ELSE none, <<>>)

AsyncOption_okOr(this, error) ==
    AsyncOption_match(this,
        LAMBDA val : Resolved(ok(val), <<>>),
        Resolved(err(error), <<>>))

\* A faulty and that waits for optionB even when the receiver is a None.
AsyncOption_and_waits(this) ==
    AsyncOption_match(this,
        LAMBDA val : Awaiting("awaitB", <<>>),
        Awaiting("awaitB", <<>>))

AsyncOption_and(this) ==
    AsyncOption_match(this,
        LAMBDA val : Awaiting("awaitB", <<>>),
        Resolved(none, <<>>))

AsyncOption_and_resumed(this, b) == Adopt(b, <<>>)

AsyncOption_andThen(this, fn) ==
    AsyncOption_match(this,
        LAMBDA val :
            LET c == Call("fn", fn, <<val>>)
            IN  IF c.kind = "throw" THEN Failed(c.val, c.calls)
                ELSE Awaiting("awaitB", c.calls),
        Resolved(none, <<>>))

AsyncOption_andThen_resumed(this, b) == Adopt(b, <<>>)

\* A faulty or that gives up the receiver's value for optionB.
AsyncOption_or_always(this) ==
    AsyncOption_match(this,
        LAMBDA val : Awaiting("awaitB", <<>>),
        Awaiting("awaitB", <<>>))

AsyncOption_or(this) ==
    AsyncOption_match(this,
        LAMBDA val : Resolved(some(val), <<>>),
        Awaiting("awaitB", <<>>))

AsyncOption_or_resumed(this, b) == Adopt(b, <<>>)

AsyncOption_orElse(this, fn) ==
    AsyncOption_match(this,
        LAMBDA val : Resolved(some(val), <<>>),
        LET c == Call("fn", fn, <<>>)
        IN  IF c.kind = "throw" THEN Failed(c.val, c.calls)
            ELSE Awaiting("awaitB", c.calls))

AsyncOption_orElse_resumed(this, b) == Adopt(b, <<>>)

AsyncOption_xor(this) ==
    AsyncOption_match(this,
        LAMBDA val : Awaiting("awaitB", <<>>),
        Awaiting("awaitB", <<>>))

\* A faulty xor that keeps the value of a Some receiver whatever optionB is.
AsyncOption_xor_resumed_asOr(this, b) ==
    AsyncOption_match(this,
        LAMBDA val : Resolved(some(val), <<>>),
        Adopt(b, <<>>))

AsyncOption_xor_resumed(this, b) ==
    AsyncOption_match(this,
        LAMBDA val :
            AsyncOption_match(b,
                LAMBDA val2 : Resolved(none, <<>>),
                Resolved(some(val), <<>>)),
        AsyncOption_match(b,
            LAMBDA val2 : Resolved(some(val2), <<>>),
            Resolved(none, <<>>)))

AsyncOption_zip(this) ==
    AsyncOption_match(this,
        LAMBDA val : Awaiting("awaitB", <<>>),
        Resolved(none, <<>>))

AsyncOption_zip_resumed(this, b) ==
    AsyncOption_match(b,
        LAMBDA val2 : Resolved(some(<<this.val.value, val2>>), <<>>),
        Resolved(none, <<>>))

AsyncOption_zipWith(this, fn) ==
    AsyncOption_match(this,
        LAMBDA val : Awaiting("awaitB", <<>>),
        Resolved(none, <<>>))

AsyncOption_zipWith_resumed(this, fn, b) ==
    AsyncOption_match(b,
        LAMBDA val2 :
            LET c == Call("fn", fn, <<this.val.value, val2>>)
            IN  IF c.kind = "throw" THEN Failed(c.val, c.calls)
                ELSE Resolved(some(c.val), c.calls),
        Resolved(none, <<>>))

\* (await this.promise).match({ Some, None }): the synchronous match of the
\* Option this.promise resolved to, with handlers that may return a promise.
Awaited_match(this, Some(_), None) ==
    IF this.st = "rejected" THEN Failed(this.val, <<>>)
    ELSE IF this.val.tag = "Some" THEN Some(this.val.value)
    ELSE None

AsyncOption_isSome(this) ==
    IF this.st = "rejected" THEN Failed(this.val, <<>>)
    ELSE Await(Option_isSome(this.val))

AsyncOption_isNone(this) ==
    IF this.st = "rejected" THEN Failed(this.val, <<>>)
    ELSE Await(Option_isNone(this.val))

AsyncOption_isSomeAnd(this, fn) ==
    Awaited_match(this,
        LAMBDA val : Await(Call("fn", fn, <<val>>)),
        Resolved(FALSE, <<>>))

AsyncOption_isSomeAnd_resumed(this, fn, fnp) == Adopt(fnp, <<>>)

AsyncOption_isNoneOr(this, fn) ==
    Awaited_match(this,
        LAMBDA val : Await(Call("fn", fn, <<val>>)),
        Resolved(TRUE, <<>>))

AsyncOption_isNoneOr_resumed(this, fn, fnp) == Adopt(fnp, <<>>)

AsyncOption_unwrapOr(this, defaultValue) ==
    IF this.st = "rejected" THEN Failed(this.val, <<>>)
    ELSE Await(Option_unwrapOr(this.val, defaultValue))

AsyncOption_unwrapOrElse(this, fn) ==
    Awaited_match(this,
        LAMBDA val : Resolved(val, <<>>),
        Await(Call("fn", fn, <<>>)))

AsyncOption_unwrapOrElse_resumed(this, fn, fnp) == Adopt(fnp, <<>>)

AsyncOption_mapOr(this, defaultValue, fn) ==
    Awaited_match(this,
        LAMBDA val : Await(Call("fn", fn, <<val>>)),
        Resolved(defaultValue, <<>>))

AsyncOption_mapOr_resumed(this, fn, fnp) == Adopt(fnp, <<>>)

AsyncOption_mapOrElse(this, defaultFn, someFn) ==
    Awaited_match(this,
        LAMBDA val : Await(Call("someFn", someFn, <<val>>)),
        Await(Call("defaultFn", defaultFn, <<>>)))

AsyncOption_mapOrElse_resumed(this, fn, fnp) == Adopt(fnp, <<>>)

(***************************************************************************)
(* AsyncResult, given in the same way.                                     *)
(***************************************************************************)
AsyncResult_toString == "AsyncResult()"

AsyncResult_match(this, Ok(_), Err(_)) ==
    IF this.st = "rejected" THEN Failed(this.val, <<>>)
    ELSE IF Result_isOk(this.val).val THEN Ok(Result_unwrap(this.val, <<>>).val)
    ELSE Err(Result_unwrapErr(this.val, <<>>).val)

AsyncResult_match_user(this, matcher) ==
    AsyncResult_match(this,
        LAMBDA val : Await(Call("Ok", matcher.Ok, <<val>>)),
        LAMBDA error : Await(Call("Err", matcher.Err, <<error>>)))

AsyncResult_match_resumed(this, matcher, fnp) == Adopt(fnp, <<>>)

AsyncResult_getResult(this) == Adopt(this, <<>>)

AsyncResult_isOk(this) ==
    IF this.st = "rejected" THEN Failed(this.val, <<>>)
    ELSE Await(Result_isOk(this.val))

AsyncResult_isErr(this) ==
    IF this.st = "rejected" THEN Failed(this.val, <<>>)
    ELSE Await(Result_isErr(this.val))

AsyncResult_unwrap(this, args) ==
    LET message == IF args = <<>>
                   THEN "Expected ok() but got err(" \o AsyncResult_toString \o ")"
                   ELSE args[1]
    IN  IF this.st = "rejected" THEN Failed(this.val, <<>>)
        ELSE Await(Result_unwrap(this.val, <<message>>))

AsyncResult_unwrapErr(this, args) ==
    LET message == IF args = <<>>
                   THEN "Expected error but got ok(" \o AsyncResult_toString \o ")"
                   ELSE args[1]
    IN  IF this.st = "rejected" THEN Failed(this.val, <<>>)
        ELSE Await(Result_unwrapErr(this.val, <<message>>))

AsyncResult_unwrapOr(this, defaultValue) ==
    IF this.st = "rejected" THEN Failed(this.val, <<>>)
    ELSE Await(Result_unwrapOr(this.val, defaultValue))

AsyncResult_isOkAnd(this, fn) ==
    AsyncResult_match(this,
        LAMBDA val : Await(Call("fn", fn, <<val>>)),
        LAMBDA error : Resolved(FALSE, <<>>))

AsyncResult_isOkAnd_resumed(this, fn, fnp) == Adopt(fnp, <<>>)

AsyncResult_isErrAnd(this, fn) ==
    AsyncResult_match(this,
        LAMBDA val : Resolved(FALSE, <<>>),
        LAMBDA error : Await(Call("fn", fn, <<error>>)))

AsyncResult_isErrAnd_resumed(this, fn, fnp) == Adopt(fnp, <<>>)

\* new AsyncOption(this.match({ Ok: some, Err: none }))
AsyncResult_ok(this) ==
    AsyncResult_match(this,
        LAMBDA val : Resolved(some(val), <<>>),
        LAMBDA error : Resolved(none, <<>>))

\* A faulty err that takes the reason of a rejection for the error of an Err.
AsyncResult_err_reasonAsError(this) ==
    IF this.st = "rejected" THEN Resolved(some(this.val), <<>>)
    ELSE AsyncResult_match(this,
             LAMBDA val : Resolved(none, <<>>),
             LAMBDA error : Resolved(some(error), <<>>))

\* new AsyncOption(this.match({ Ok: none, Err: some }))
AsyncResult_err(this) ==
    AsyncResult_match(this,
        LAMBDA val : Resolved(none, <<>>),
        LAMBDA error : Resolved(some(error), <<>>))

\* A faulty map that turns what fn throws into an Err.
AsyncResult_map_catches(this, fn) ==
    AsyncResult_match(this,
        LAMBDA val :
            LET c == Call("fn", fn, <<val>>)
            IN  CASE c.kind = "return" -> Resolved(ok(c.val), c.calls)
                  [] c.kind = "throw" -> Resolved(err(c.val), c.calls)
                  [] OTHER -> Awaiting("awaitFn", c.calls),
        LAMBDA error : Resolved(err(error), <<>>))

\* Ok: async (val) => ok(await fn(val)), Err: err
AsyncResult_map(this, fn) ==
    AsyncResult_match(this,
        LAMBDA val :
            LET c == Call("fn", fn, <<val>>)
            IN  CASE c.kind = "return" -> Resolved(ok(c.val), c.calls)
                  [] c.kind = "throw" -> Failed(c.val, c.calls)
                  [] OTHER -> Awaiting("awaitFn", c.calls),
        LAMBDA error : Resolved(err(error), <<>>))

AsyncResult_map_resumed(this, fn, fnp) ==
    IF fnp.st = "rejected" THEN Failed(fnp.val, <<>>) ELSE Resolved(ok(fnp.val), <<>>)

\* Ok: async (val) => await fn(val), Err: async () => await defaultValue
AsyncResult_mapOr(this, defaultValue, fn) ==
    AsyncResult_match(this,
        LAMBDA val : Await(Call("fn", fn, <<val>>)),
        LAMBDA error : Resolved(defaultValue, <<>>))

AsyncResult_mapOr_resumed(this, fn, fnp) == Adopt(fnp, <<>>)

\* Ok: async (val) => await fn(val), Err: async (err) => await defaultFn(err)
AsyncResult_mapOrElse(this, defaultFn, fn) ==
    AsyncResult_match(this,
        LAMBDA val : Await(Call("fn", fn, <<val>>)),
        LAMBDA error : Await(Call("defaultFn", defaultFn, <<error>>)))

AsyncResult_mapOrElse_resumed(this, fn, fnp) == Adopt(fnp, <<>>)

\* Ok: ok, Err: async (error) => err(await fn(error))
AsyncResult_mapErr(this, fn) ==
    AsyncResult_match(this,
        LAMBDA val : Resolved(ok(val), <<>>),
        LAMBDA error :
            LET c == Call("fn", fn, <<error>>)
            IN  CASE c.kind = "return" -> Resolved(err(c.val), c.calls)
                  [] c.kind = "throw" -> Failed(c.val, c.calls)
                  [] OTHER -> Awaiting("awaitFn", c.calls))

AsyncResult_mapErr_resumed(this, fn, fnp) ==
    IF fnp.st = "rejected" THEN Failed(fnp.val, <<>>) ELSE Resolved(err(fnp.val), <<>>)

\* Ok: async (val) => { await fn(val); return ok(val); }, Err: async (error) => err(error)
AsyncResult_inspect(this, fn) ==
    AsyncResult_match(this,
        LAMBDA val :
            LET c == Call("fn", fn, <<val>>)
            IN  CASE c.kind = "return" -> Resolved(ok(val), c.calls)
                  [] c.kind = "throw" -> Failed(c.val, c.calls)
                  [] OTHER -> Awaiting("awaitFn", c.calls),
        LAMBDA error : Resolved(err(error), <<>>))

AsyncResult_inspect_resumed(this, fn, fnp) ==
    IF fnp.st = "rejected" THEN Failed(fnp.val, <<>>)
    ELSE Resolved(ok(this.val.value), <<>>)

\* Ok: async (val) => ok(val), Err: async (error) => { await fn(error); return err(error); }
AsyncResult_inspectErr(this, fn) ==
    AsyncResult_match(this,
        LAMBDA val : Resolved(ok(val), <<>>),
        LAMBDA error :
            LET c == Call("fn", fn, <<error>>)
            IN  CASE c.kind = "return" -> Resolved(err(error), c.calls)
                  [] c.kind = "throw" -> Failed(c.val, c.calls)
                  [] OTHER -> Awaiting("awaitFn", c.calls))

AsyncResult_inspectErr_resumed(this, fn, fnp) ==
    IF fnp.st = "rejected" THEN Failed(fnp.val, <<>>)
    ELSE Resolved(err(this.val.error), <<>>)

\* Ok: () => resultB.getResult(), Err: err
AsyncResult_and(this) ==
    AsyncResult_match(this,
        LAMBDA val : Awaiting("awaitB", <<>>),
        LAMBDA error : Resolved(err(error), <<>>))

AsyncResult_and_resumed(this, b) == AsyncResult_getResult(b)

\* Ok: (val) => fn(val).getResult(), Err: err
AsyncResult_andThen(this, fn) ==
    AsyncResult_match(this,
        LAMBDA val :
            LET c == Call("fn", fn, <<val>>)
            IN  IF c.kind = "throw" THEN Failed(c.val, c.calls)
                ELSE Awaiting("awaitB", c.calls),
        LAMBDA error : Resolved(err(error), <<>>))

AsyncResult_andThen_resumed(this, b) == AsyncResult_getResult(b)

\* Ok: async (val) => fn(val).getResult(), Err: err
AsyncResult_chain(this, fn) ==
    AsyncResult_match(this,
        LAMBDA val :
            LET c == Call("fn", fn, <<val>>)
            IN  IF c.kind = "throw" THEN Failed(c.val, c.calls)
                ELSE Awaiting("awaitB", c.calls),
        LAMBDA error : Resolved(err(error), <<>>))

AsyncResult_chain_resumed(this, b) == AsyncResult_getResult(b)

\* A faulty or that gives up the receiver's value for resultB.
AsyncResult_or_always(this) ==
    AsyncResult_match(this,
        LAMBDA val : Awaiting("awaitB", <<>>),
        LAMBDA error : Awaiting("awaitB", <<>>))

\* Ok: ok, Err: () => resultB.getResult()
AsyncResult_or(this) ==
    AsyncResult_match(this,
        LAMBDA val : Resolved(ok(val), <<>>),
        LAMBDA error : Awaiting("awaitB", <<>>))

AsyncResult_or_resumed(this, b) == AsyncResult_getResult(b)

\* Ok: ok, Err: (err) => fn(err).getResult()
AsyncResult_orElse(this, fn) ==
    AsyncResult_match(this,
        LAMBDA val : Resolved(ok(val), <<>>),
        LAMBDA error :
            LET c == Call("fn", fn, <<error>>)
            IN  IF c.kind = "throw" THEN Failed(c.val, c.calls)
                ELSE Awaiting("awaitB", c.calls))

AsyncResult_orElse_resumed(this, b) == AsyncResult_getResult(b)

\* Ok: (val) => val, Err: (error) => fn(error)
AsyncResult_unwrapOrElse(this, fn) ==
    AsyncResult_match(this,
        LAMBDA val : Resolved(val, <<>>),
        LAMBDA error : Await(Call("fn", fn, <<error>>)))

AsyncResult_unwrapOrElse_resumed(this, fn, fnp) == Adopt(fnp, <<>>)

(***************************************************************************)
(* The asynchronous iterators.  The body of the async generator starts at  *)
(* the first next(): it awaits this.promise, and then yields the value or  *)
(* returns.  The promise of next() (inner) is fulfilled with the iterator  *)
(* result; at pc "yielded" the body is suspended at its yield.             *)
(***************************************************************************)
Yielded(x) == [pc |-> "yielded", inner |-> Fulfilled(IteratorResult(x, FALSE)), calls |-> <<>>]

Finished == Resolved(IteratorResult(Null, TRUE), <<>>)

\* const opt = await this.promise; if (opt.isSome()) { yield opt.unwrap(); }
AsyncOption_asyncIterator(this) ==
    IF this.st = "rejected" THEN Failed(this.val, <<>>)
    ELSE IF Option_isSome(this.val).val THEN Yielded(Option_unwrap(this.val, <<>>).val)
    ELSE Finished

\* The body resumes after its yield and returns.
AsyncOption_asyncIterator_resumed(this) == Finished

\* A faulty async iterator of AsyncResult that yields the payload of an Err.
AsyncResult_asyncIterator_yieldsError(this) ==
    IF this.st = "rejected" THEN Failed(this.val, <<>>)
    ELSE IF Result_isOk(this.val).val THEN Yielded(Result_unwrap(this.val, <<>>).val)
    ELSE Yielded(this.val.error)

\* const res = await this.promise; if (res.isOk()) { yield res.unwrap(); }
AsyncResult_asyncIterator(this) ==
    IF this.st = "rejected" THEN Failed(this.val, <<>>)
    ELSE IF Result_isOk(this.val).val THEN Yielded(Result_unwrap(this.val, <<>>).val)
    ELSE Finished

AsyncResult_asyncIterator_resumed(this) == Finished

(***************************************************************************)
(* The wrappers.  A wrapper records its class, the factory that made it,   *)
(* src (the promise handed to the factory) and promise (its private field  *)
(* this.promise).                                                          *)
(***************************************************************************)
\* A faulty constructor that keeps the promise as it is, without the catch.
AsyncOption_constructor_noCatch(promise) == promise

\* this.promise = promise.catch(() => none())
AsyncOption_constructor(promise) ==
    IF promise.st = "rejected" THEN Fulfilled(none) ELSE promise

\* new AsyncOption(Promise.resolve(option))
AsyncOption_fromOption(option) == AsyncOption_constructor(Fulfilled(option))

\* A faulty fromPromise that takes the rejection reason for a value.
AsyncOption_fromPromise_reasonAsValue(promise) ==
    AsyncOption_constructor(
        CASE promise.st = "fulfilled" -> Fulfilled(some(promise.val))
          [] promise.st = "rejected" -> Fulfilled(some(promise.val))
          [] OTHER -> Pending)

\* new AsyncOption(promise.then((val) => some(val), () => none()))
AsyncOption_fromPromise(promise) ==
    AsyncOption_constructor(
        CASE promise.st = "fulfilled" -> Fulfilled(some(promise.val))
          [] promise.st = "rejected" -> Fulfilled(none)
          [] OTHER -> Pending)

\* A faulty constructor that turns a rejection into an Err.
AsyncResult_constructor_catches(promise) ==
    IF promise.st = "rejected" THEN Fulfilled(err(promise.val)) ELSE promise

\* constructor(private readonly promise): the promise is kept as it is.
AsyncResult_constructor(promise) == promise

\* new AsyncResult(Promise.resolve(result))
AsyncResult_fromResult(result) == AsyncResult_constructor(Fulfilled(result))

\* A faulty fromPromise without the rejection handler.
AsyncResult_fromPromise_noHandler(promise) ==
    AsyncResult_constructor(
        CASE promise.st = "fulfilled" -> Fulfilled(ok(promise.val))
          [] promise.st = "rejected" -> Rejected(promise.val)
          [] OTHER -> Pending)

\* new AsyncResult(promise.then((val) => ok(val), (error) => err(error)))
AsyncResult_fromPromise(promise) ==
    AsyncResult_constructor(
        CASE promise.st = "fulfilled" -> Fulfilled(ok(promise.val))
          [] promise.st = "rejected" -> Fulfilled(err(promise.val))
          [] OTHER -> Pending)

\* this.promise of a wrapper of class cls made by the factory how from src.
ThisPromise(cls, how, src) ==
    CASE cls = "AsyncOption" /\ how = "fromPromise" -> AsyncOption_fromPromise(src)
      [] cls = "AsyncOption" /\ how = "fromOption" -> AsyncOption_fromOption(src.val)
      [] cls = "AsyncOption" -> AsyncOption_constructor(src)
      [] cls = "AsyncResult" /\ how = "fromPromise" -> AsyncResult_fromPromise(src)
      [] cls = "AsyncResult" /\ how = "fromResult" -> AsyncResult_fromResult(src.val)
      [] OTHER -> AsyncResult_constructor(src)

Wrapper(cls, how, src) ==
    [cls |-> cls, how |-> how, src |-> src, promise |-> ThisPromise(cls, how, src)]

\* What the promise handed to a factory is fulfilled with.
SourceValues(w) ==
    IF w.how = "fromPromise" THEN Vals
    ELSE IF w.cls = "AsyncOption" THEN Options ELSE Results

Quiet == sync = Idle /\ R = NoCall

AsyncOption_new ==
    /\ Quiet /\ A = NoWrapper
    /\ A' = Wrapper("AsyncOption", "constructor", Pending)
    /\ UNCHANGED <<sync, B, R>>

AsyncOption_fromOption_call ==
    /\ Quiet /\ A = NoWrapper
    /\ \E option \in Options : A' = Wrapper("AsyncOption", "fromOption", Fulfilled(option))
    /\ UNCHANGED <<sync, B, R>>

AsyncOption_fromPromise_call ==
    /\ Quiet /\ A = NoWrapper
    /\ A' = Wrapper("AsyncOption", "fromPromise", Pending)
    /\ UNCHANGED <<sync, B, R>>

AsyncResult_new ==
    /\ Quiet /\ A = NoWrapper
    /\ A' = Wrapper("AsyncResult", "constructor", Pending)
    /\ UNCHANGED <<sync, B, R>>

AsyncResult_fromResult_call ==
    /\ Quiet /\ A = NoWrapper
    /\ \E result \in Results : A' = Wrapper("AsyncResult", "fromResult", Fulfilled(result))
    /\ UNCHANGED <<sync, B, R>>

AsyncResult_fromPromise_call ==
    /\ Quiet /\ A = NoWrapper
    /\ A' = Wrapper("AsyncResult", "fromPromise", Pending)
    /\ UNCHANGED <<sync, B, R>>

\* The promise handed to the factory of A is fulfilled.
Source_fulfil ==
    /\ A # NoWrapper /\ A.src = Pending
    /\ \E v \in SourceValues(A) : A' = Wrapper(A.cls, A.how, Fulfilled(v))
    /\ UNCHANGED <<sync, B, R>>

\* The promise handed to the factory of A is rejected.
Source_reject ==
    /\ A # NoWrapper /\ A.src = Pending
    /\ \E e \in Reasons : A' = Wrapper(A.cls, A.how, Rejected(e))
    /\ UNCHANGED <<sync, B, R>>

\* The operand wrapper made from src.  order tells whether its promise settled
\* before this.promise of A did ("first") or after it ("second"): the two
\* promises are independent, and the order is recorded for the properties.
Operand(cls, src, order) ==
    [cls |-> cls, how |-> "constructor", src |-> src,
     promise |-> ThisPromise(cls, "constructor", src), order |-> order]

SettlingOrder == IF Settled(A.promise) THEN "second" ELSE "first"

\* The promise handed to the constructor of B is fulfilled.
Operand_fulfil ==
    /\ B # NoWrapper /\ B.src = Pending
    /\ \E v \in SourceValues(B) : B' = Operand(B.cls, Fulfilled(v), SettlingOrder)
    /\ UNCHANGED <<sync, A, R>>

\* The promise handed to the constructor of B is rejected.
Operand_reject ==
    /\ B # NoWrapper /\ B.src = Pending
    /\ \E e \in Reasons : B' = Operand(B.cls, Rejected(e), SettlingOrder)
    /\ UNCHANGED <<sync, A, R>>

(***************************************************************************)
(* The steps of the call in progress.                                      *)
(***************************************************************************)
\* The other definition of AsyncOption has okOr<E>(err: E): never { throw err; }
AsyncOption_okOr_throws(error) == Throw(error)

\* What the method op does once this.promise has settled.
OnThis(op, args, this) ==
    CASE op = "AsyncOption.getOption" -> AsyncOption_getOption(this)
      [] op = "AsyncOption.unwrap" -> AsyncOption_unwrap(this)
      [] op = "AsyncOption.match" -> AsyncOption_match_user(this, args[1])
      [] op = "AsyncOption.map" -> AsyncOption_map(this, args[1])
      [] op = "AsyncOption.inspect" -> AsyncOption_inspect(this, args[1])
      [] op = "AsyncOption.inspect.then" -> AsyncOption_inspect_then(this, args[1])
      [] op = "AsyncOption.filter" -> AsyncOption_filter(this, args[1])
      [] op = "AsyncOption.okOr" -> AsyncOption_okOr(this, args[1])
      [] op = "AsyncOption.and" -> AsyncOption_and(this)
      [] op = "AsyncOption.andThen" -> AsyncOption_andThen(this, args[1])
      [] op = "AsyncOption.or" -> AsyncOption_or(this)
      [] op = "AsyncOption.orElse" -> AsyncOption_orElse(this, args[1])
      [] op = "AsyncOption.xor" -> AsyncOption_xor(this)
      [] op = "AsyncOption.zip" -> AsyncOption_zip(this)
      [] op = "AsyncOption.zipWith" -> AsyncOption_zipWith(this, args[1])
      [] op = "AsyncOption.isSome" -> AsyncOption_isSome(this)
      [] op = "AsyncOption.isNone" -> AsyncOption_isNone(this)
      [] op = "AsyncOption.isSomeAnd" -> AsyncOption_isSomeAnd(this, args[1])
      [] op = "AsyncOption.isNoneOr" -> AsyncOption_isNoneOr(this, args[1])
      [] op = "AsyncOption.unwrapOr" -> AsyncOption_unwrapOr(this, args[1])
      [] op = "AsyncOption.unwrapOrElse" -> AsyncOption_unwrapOrElse(this, args[1])
      [] op = "AsyncOption.mapOr" -> AsyncOption_mapOr(this, args[1], args[2])
      [] op = "AsyncOption.mapOrElse" -> AsyncOption_mapOrElse(this, args[1], args[2])
      [] op = "AsyncResult.getResult" -> AsyncResult_getResult(this)
      [] op = "AsyncResult.isOkAnd" -> AsyncResult_isOkAnd(this, args[1])
      [] op = "AsyncResult.isErrAnd" -> AsyncResult_isErrAnd(this, args[1])
      [] op = "AsyncResult.ok" -> AsyncResult_ok(this)
      [] op = "AsyncResult.err" -> AsyncResult_err(this)
      [] op = "AsyncResult.map" -> AsyncResult_map(this, args[1])
      [] op = "AsyncResult.mapOr" -> AsyncResult_mapOr(this, args[1], args[2])
      [] op = "AsyncResult.mapOrElse" -> AsyncResult_mapOrElse(this, args[1], args[2])
      [] op = "AsyncResult.mapErr" -> AsyncResult_mapErr(this, args[1])
      [] op = "AsyncResult.inspect" -> AsyncResult_inspect(this, args[1])
      [] op = "AsyncResult.inspectErr" -> AsyncResult_inspectErr(this, args[1])
      [] op = "AsyncResult.and" -> AsyncResult_and(this)
      [] op = "AsyncResult.andThen" -> AsyncResult_andThen(this, args[1])
      [] op = "AsyncResult.chain" -> AsyncResult_chain(this, args[1])
      [] op = "AsyncResult.or" -> AsyncResult_or(this)
      [] op = "AsyncResult.orElse" -> AsyncResult_orElse(this, args[1])
      [] op = "AsyncResult.unwrapOrElse" -> AsyncResult_unwrapOrElse(this, args[1])
      [] op = "AsyncResult.isOk" -> AsyncResult_isOk(this)
      [] op = "AsyncResult.isErr" -> AsyncResult_isErr(this)
      [] op = "AsyncResult.match" -> AsyncResult_match_user(this, args[1])
      [] op = "AsyncResult.unwrap" -> AsyncResult_unwrap(this, args)
      [] op = "AsyncResult.unwrapErr" -> AsyncResult_unwrapErr(this, args)
      [] op = "AsyncResult.unwrapOr" -> AsyncResult_unwrapOr(this, args[1])
      [] op = "AsyncOption.asyncIterator" -> AsyncOption_asyncIterator(this)
      [] op = "AsyncResult.asyncIterator" -> AsyncResult_asyncIterator(this)

\* How it resumes once the promise its callback returned has settled.
OnFn(op, args, this, fnp) ==
    CASE op = "AsyncOption.match" -> AsyncOption_match_resumed(this, args[1], fnp)
      [] op = "AsyncOption.map" -> AsyncOption_map_resumed(this, args[1], fnp)
      [] op = "AsyncOption.inspect" -> AsyncOption_inspect_resumed(this, args[1], fnp)
      [] op = "AsyncOption.filter" -> AsyncOption_filter_resumed(this, args[1], fnp)
      [] op = "AsyncResult.match" -> AsyncResult_match_resumed(this, args[1], fnp)
      [] op = "AsyncOption.isSomeAnd" -> AsyncOption_isSomeAnd_resumed(this, args[1], fnp)
      [] op = "AsyncOption.isNoneOr" -> AsyncOption_isNoneOr_resumed(this, args[1], fnp)
      [] op = "AsyncOption.unwrapOrElse" -> AsyncOption_unwrapOrElse_resumed(this, args[1], fnp)
      [] op = "AsyncOption.mapOr" -> AsyncOption_mapOr_resumed(this, args[2], fnp)
      [] op = "AsyncOption.mapOrElse" -> AsyncOption_mapOrElse_resumed(this, args[2], fnp)
      [] op = "AsyncResult.isOkAnd" -> AsyncResult_isOkAnd_resumed(this, args[1], fnp)
      [] op = "AsyncResult.isErrAnd" -> AsyncResult_isErrAnd_resumed(this, args[1], fnp)
      [] op = "AsyncResult.map" -> AsyncResult_map_resumed(this, args[1], fnp)
      [] op = "AsyncResult.mapOr" -> AsyncResult_mapOr_resumed(this, args[2], fnp)
      [] op = "AsyncResult.mapOrElse" -> AsyncResult_mapOrElse_resumed(this, args[2], fnp)
      [] op = "AsyncResult.mapErr" -> AsyncResult_mapErr_resumed(this, args[1], fnp)
      [] op = "AsyncResult.inspect" -> AsyncResult_inspect_resumed(this, args[1], fnp)
      [] op = "AsyncResult.inspectErr" -> AsyncResult_inspectErr_resumed(this, args[1], fnp)
      [] op = "AsyncResult.unwrapOrElse" -> AsyncResult_unwrapOrElse_resumed(this, args[1], fnp)

\* How it resumes once the promise of optionB has settled.
OnB(op, args, this, b) ==
    CASE op = "AsyncOption.and" -> AsyncOption_and_resumed(this, b)
      [] op = "AsyncOption.andThen" -> AsyncOption_andThen_resumed(this, b)
      [] op = "AsyncOption.or" -> AsyncOption_or_resumed(this, b)
      [] op = "AsyncOption.orElse" -> AsyncOption_orElse_resumed(this, b)
      [] op = "AsyncOption.xor" -> AsyncOption_xor_resumed(this, b)
      [] op = "AsyncOption.zip" -> AsyncOption_zip_resumed(this, b)
      [] op = "AsyncOption.zipWith" -> AsyncOption_zipWith_resumed(this, args[1], b)
      [] op = "AsyncResult.and" -> AsyncResult_and_resumed(this, b)
      [] op = "AsyncResult.andThen" -> AsyncResult_andThen_resumed(this, b)
      [] op = "AsyncResult.chain" -> AsyncResult_chain_resumed(this, b)
      [] op = "AsyncResult.or" -> AsyncResult_or_resumed(this, b)
      [] op = "AsyncResult.orElse" -> AsyncResult_orElse_resumed(this, b)

\* What the caller holds of a call whose async function stands at inner: the
\* wrappers hand inner to their constructor.
Returned(cls, inner) ==
    CASE cls = "AsyncOption" -> AsyncOption_constructor(inner)
      [] cls = "AsyncResult" -> AsyncResult_constructor(inner)
      [] OTHER -> inner

\* The method op is called on A; it returns a cls.
\* The method op, called on A, threw e instead of returning: there is no
\* promise and no wrapper.
ThrewCall(op, args, e) ==
    [op |-> op, cls |-> "never", args |-> args, pc |-> "threw", calls |-> <<>>,
     fnp |-> Pending, inner |-> Pending, promise |-> Pending, thrown |-> e]

NewCall(op, cls, args) ==
    [op |-> op, cls |-> cls, args |-> args, pc |-> "awaitThis", calls |-> <<>>,
     fnp |-> Pending, inner |-> Pending, promise |-> Returned(cls, Pending),
     thrown |-> Null]

\* A method that returns this (cls = "this") hands the receiver back: the
\* caller holds A, whose promise is not derived from the call.
Advance(call, step) ==
    [call EXCEPT !.pc = step.pc, !.calls = call.calls \o step.calls,
                 !.inner = step.inner,
                 !.promise = IF call.cls = "this" THEN A.promise
                             ELSE Returned(call.cls, step.inner)]

Callable(cls) == sync = Idle /\ R = NoCall /\ A.cls = cls

\* optionB: a wrapper whose promise may settle at any time.
NewOperand(cls) == Operand(cls, Pending, "pending")

\* The values the promise returned by a callback of op is fulfilled with.
FnValues(op) ==
    CASE op \in {"AsyncOption.filter", "AsyncOption.isSomeAnd", "AsyncOption.isNoneOr",
                 "AsyncResult.isOkAnd", "AsyncResult.isErrAnd"} -> BOOLEAN
      [] op \in {"AsyncOption.inspect", "AsyncResult.inspect", "AsyncResult.inspectErr"} -> {Null}
      [] OTHER -> Vals

\* this.promise has settled: the async function of the call runs up to its
\* first await of another promise, or to its end.
Call_run ==
    /\ R # NoCall /\ R.pc = "awaitThis" /\ Settled(A.promise)
    /\ R' = Advance(R, OnThis(R.op, R.args, A.promise))
    /\ UNCHANGED <<sync, A, B>>

\* The promise a callback returned is fulfilled, or rejected.
Callback_fulfil ==
    /\ R # NoCall /\ R.pc = "awaitFn" /\ R.fnp = Pending
    /\ \E v \in FnValues(R.op) : R' = [R EXCEPT !.fnp = Fulfilled(v)]
    /\ UNCHANGED <<sync, A, B>>

Callback_reject ==
    /\ R # NoCall /\ R.pc = "awaitFn" /\ R.fnp = Pending
    /\ \E e \in CallbackErrors : R' = [R EXCEPT !.fnp = Rejected(e)]
    /\ UNCHANGED <<sync, A, B>>

\* zipWith does not await what fn returned: a promise fn returned settles
\* after the call has, and nothing waits for it.
Unawaited_settle ==
    /\ R # NoCall /\ R.op = "AsyncOption.zipWith" /\ R.pc = "settled"
    /\ R.args[1].kind = "promise" /\ R.calls # <<>> /\ R.fnp = Pending
    /\ \E p \in {Fulfilled(v) : v \in Vals} \cup {Rejected(e) : e \in CallbackErrors} :
          R' = [R EXCEPT !.fnp = p]
    /\ UNCHANGED <<sync, A, B>>

\* The async function resumes after the await of its callback's promise.
Call_resume ==
    /\ R # NoCall /\ R.pc = "awaitFn" /\ Settled(R.fnp)
    /\ R' = Advance(R, OnFn(R.op, R.args, A.promise, R.fnp))
    /\ UNCHANGED <<sync, A, B>>

\* The async function resumes after the await of optionB's promise.
Call_resumeB ==
    /\ R # NoCall /\ R.pc = "awaitB" /\ Settled(B.promise)
    /\ R' = Advance(R, OnB(R.op, R.args, A.promise, B.promise))
    /\ UNCHANGED <<sync, A, B>>

\* The caller lets go of what the call returned, and of optionB.
Release ==
    /\ R # NoCall /\ R.pc \in {"settled", "threw"}
    /\ R' = NoCall /\ B' = NoWrapper
    /\ UNCHANGED <<sync, A>>

\* The caller goes on with the wrapper the call returned (a chain of calls).
\* A wrapper of pairs is not taken up again: the payloads stay in Vals.
Continue ==
    /\ R # NoCall /\ R.pc = "settled" /\ R.cls \in {"AsyncOption", "AsyncResult"}
    /\ R.op # "AsyncOption.zip"
    /\ ~(R.op = "AsyncOption.zipWith" /\ R.args[1].kind = "promise")
    /\ A' = [cls |-> R.cls, how |-> R.op, src |-> R.inner, promise |-> R.promise]
    /\ R' = NoCall /\ B' = NoWrapper
    /\ UNCHANGED sync

(***************************************************************************)
(* The calls a client makes on the wrapper A.                              *)
(***************************************************************************)
AsyncMatchers(tags) == [tags -> AsyncFns(Vals)]

AsyncOption_getOption_call ==
    /\ Callable("AsyncOption")
    /\ R' = NewCall("AsyncOption.getOption", "Promise", <<>>)
    /\ UNCHANGED <<sync, A, B>>

AsyncOption_unwrap_call ==
    /\ Callable("AsyncOption")
    /\ R' = NewCall("AsyncOption.unwrap", "Promise", <<>>)
    /\ UNCHANGED <<sync, A, B>>

AsyncOption_match_call ==
    /\ Callable("AsyncOption")
    /\ \E matcher \in AsyncMatchers({"Some", "None"}) :
          R' = NewCall("AsyncOption.match", "Promise", <<matcher>>)
    /\ UNCHANGED <<sync, A, B>>

AsyncOption_map_call ==
    /\ Callable("AsyncOption")
    /\ \E fn \in AsyncFns(Vals) : R' = NewCall("AsyncOption.map", "AsyncOption", <<fn>>)
    /\ UNCHANGED <<sync, A, B>>

AsyncOption_inspect_call ==
    /\ Callable("AsyncOption")
    /\ \E fn \in AsyncFns({Null}) : R' = NewCall("AsyncOption.inspect", "AsyncOption", <<fn>>)
    /\ UNCHANGED <<sync, A, B>>

\* inspect of the definition that returns this.
AsyncOption_inspect_then_call ==
    /\ Callable("AsyncOption")
    /\ \E fn \in SyncFns({Null}) :
          R' = [NewCall("AsyncOption.inspect.then", "this", <<fn>>) EXCEPT !.promise = A.promise]
    /\ UNCHANGED <<sync, A, B>>

AsyncOption_filter_call ==
    /\ Callable("AsyncOption")
    /\ \E fn \in AsyncFns(BOOLEAN) : R' = NewCall("AsyncOption.filter", "AsyncOption", <<fn>>)
    /\ UNCHANGED <<sync, A, B>>

AsyncOption_okOr_call ==
    /\ Callable("AsyncOption")
    /\ \E error \in Vals : R' = NewCall("AsyncOption.okOr", "AsyncResult", <<error>>)
    /\ UNCHANGED <<sync, A, B>>

\* okOr of the definition that is not yet implemented.
AsyncOption_okOr_throws_call ==
    /\ Callable("AsyncOption")
    /\ \E error \in Vals :
          R' = ThrewCall("AsyncOption.okOr", <<error>>, AsyncOption_okOr_throws(error).val)
    /\ UNCHANGED <<sync, A, B>>

AsyncOption_and_call ==
    /\ Callable("AsyncOption")
    /\ R' = NewCall("AsyncOption.and", "AsyncOption", <<>>)
    /\ B' = NewOperand("AsyncOption")
    /\ UNCHANGED <<sync, A>>

\* fn returns the wrapper B, or throws.
AsyncOption_andThen_call ==
    /\ Callable("AsyncOption")
    /\ \E fn \in SyncFns({"optionB"}) :
          R' = NewCall("AsyncOption.andThen", "AsyncOption", <<fn>>)
    /\ B' = NewOperand("AsyncOption")
    /\ UNCHANGED <<sync, A>>

AsyncOption_or_call ==
    /\ Callable("AsyncOption")
    /\ R' = NewCall("AsyncOption.or", "AsyncOption", <<>>)
    /\ B' = NewOperand("AsyncOption")
    /\ UNCHANGED <<sync, A>>

AsyncOption_orElse_call ==
    /\ Callable("AsyncOption")
    /\ \E fn \in SyncFns({"optionB"}) :
          R' = NewCall("AsyncOption.orElse", "AsyncOption", <<fn>>)
    /\ B' = NewOperand("AsyncOption")
    /\ UNCHANGED <<sync, A>>

AsyncOption_xor_call ==
    /\ Callable("AsyncOption")
    /\ R' = NewCall("AsyncOption.xor", "AsyncOption", <<>>)
    /\ B' = NewOperand("AsyncOption")
    /\ UNCHANGED <<sync, A>>

AsyncOption_zip_call ==
    /\ Callable("AsyncOption")
    /\ R' = NewCall("AsyncOption.zip", "AsyncOption", <<>>)
    /\ B' = NewOperand("AsyncOption")
    /\ UNCHANGED <<sync, A>>

AsyncOption_zipWith_call ==
    /\ Callable("AsyncOption")
    /\ \E fn \in AsyncFns(Vals) : R' = NewCall("AsyncOption.zipWith", "AsyncOption", <<fn>>)
    /\ B' = NewOperand("AsyncOption")
    /\ UNCHANGED <<sync, A>>

AsyncResult_getResult_call ==
    /\ Callable("AsyncResult")
    /\ R' = NewCall("AsyncResult.getResult", "Promise", <<>>)
    /\ UNCHANGED <<sync, A, B>>

AsyncResult_isOk_call ==
    /\ Callable("AsyncResult")
    /\ R' = NewCall("AsyncResult.isOk", "Promise", <<>>)
    /\ UNCHANGED <<sync, A, B>>

AsyncResult_isErr_call ==
    /\ Callable("AsyncResult")
    /\ R' = NewCall("AsyncResult.isErr", "Promise", <<>>)
    /\ UNCHANGED <<sync, A, B>>

AsyncResult_match_call ==
    /\ Callable("AsyncResult")
    /\ \E matcher \in AsyncMatchers({"Ok", "Err"}) :
          R' = NewCall("AsyncResult.match", "Promise", <<matcher>>)
    /\ UNCHANGED <<sync, A, B>>

AsyncResult_unwrap_call ==
    /\ Callable("AsyncResult")
    /\ \E args \in MessageArgs : R' = NewCall("AsyncResult.unwrap", "Promise", args)
    /\ UNCHANGED <<sync, A, B>>

AsyncResult_unwrapErr_call ==
    /\ Callable("AsyncResult")
    /\ \E args \in MessageArgs : R' = NewCall("AsyncResult.unwrapErr", "Promise", args)
    /\ UNCHANGED <<sync, A, B>>

AsyncResult_unwrapOr_call ==
    /\ Callable("AsyncResult")
    /\ \E defaultValue \in Vals :
          R' = NewCall("AsyncResult.unwrapOr", "Promise", <<defaultValue>>)
    /\ UNCHANGED <<sync, A, B>>

AsyncOption_isSome_call ==
    /\ Callable("AsyncOption")
    /\ R' = NewCall("AsyncOption.isSome", "Promise", <<>>)
    /\ UNCHANGED <<sync, A, B>>

AsyncOption_isNone_call ==
    /\ Callable("AsyncOption")
    /\ R' = NewCall("AsyncOption.isNone", "Promise", <<>>)
    /\ UNCHANGED <<sync, A, B>>

AsyncOption_isSomeAnd_call ==
    /\ Callable("AsyncOption")
    /\ \E fn \in AsyncFns(BOOLEAN) :
          R' = NewCall("AsyncOption.isSomeAnd", "Promise", <<fn>>)
    /\ UNCHANGED <<sync, A, B>>

AsyncOption_isNoneOr_call ==
    /\ Callable("AsyncOption")
    /\ \E fn \in AsyncFns(BOOLEAN) :
          R' = NewCall("AsyncOption.isNoneOr", "Promise", <<fn>>)
    /\ UNCHANGED <<sync, A, B>>

AsyncOption_unwrapOr_call ==
    /\ Callable("AsyncOption")
    /\ \E defaultValue \in Vals :
          R' = NewCall("AsyncOption.unwrapOr", "Promise", <<defaultValue>>)
    /\ UNCHANGED <<sync, A, B>>

AsyncOption_unwrapOrElse_call ==
    /\ Callable("AsyncOption")
    /\ \E fn \in AsyncFns(Vals) :
          R' = NewCall("AsyncOption.unwrapOrElse", "Promise", <<fn>>)
    /\ UNCHANGED <<sync, A, B>>

AsyncOption_mapOr_call ==
    /\ Callable("AsyncOption")
    /\ \E defaultValue \in Vals, fn \in AsyncFns(Vals) :
          R' = NewCall("AsyncOption.mapOr", "Promise", <<defaultValue, fn>>)
    /\ UNCHANGED <<sync, A, B>>

AsyncOption_mapOrElse_call ==
    /\ Callable("AsyncOption")
    /\ \E defaultFn \in AsyncFns(Vals), someFn \in AsyncFns(Vals) :
          R' = NewCall("AsyncOption.mapOrElse", "Promise", <<defaultFn, someFn>>)
    /\ UNCHANGED <<sync, A, B>>

AsyncResult_isOkAnd_call ==
    /\ Callable("AsyncResult")
    /\ \E fn \in AsyncFns(BOOLEAN) :
          R' = NewCall("AsyncResult.isOkAnd", "Promise", <<fn>>)
    /\ UNCHANGED <<sync, A, B>>

AsyncResult_isErrAnd_call ==
    /\ Callable("AsyncResult")
    /\ \E fn \in AsyncFns(BOOLEAN) :
          R' = NewCall("AsyncResult.isErrAnd", "Promise", <<fn>>)
    /\ UNCHANGED <<sync, A, B>>

AsyncResult_ok_call ==
    /\ Callable("AsyncResult")
    /\ R' = NewCall("AsyncResult.ok", "AsyncOption", <<>>)
    /\ UNCHANGED <<sync, A, B>>

AsyncResult_err_call ==
    /\ Callable("AsyncResult")
    /\ R' = NewCall("AsyncResult.err", "AsyncOption", <<>>)
    /\ UNCHANGED <<sync, A, B>>

AsyncResult_map_call ==
    /\ Callable("AsyncResult")
    /\ \E fn \in AsyncFns(Vals) :
          R' = NewCall("AsyncResult.map", "AsyncResult", <<fn>>)
    /\ UNCHANGED <<sync, A, B>>

AsyncResult_mapOr_call ==
    /\ Callable("AsyncResult")
    /\ \E defaultValue \in Vals, fn \in AsyncFns(Vals) :
          R' = NewCall("AsyncResult.mapOr", "Promise", <<defaultValue, fn>>)
    /\ UNCHANGED <<sync, A, B>>

AsyncResult_mapOrElse_call ==
    /\ Callable("AsyncResult")
    /\ \E defaultFn \in AsyncFns(Vals), fn \in AsyncFns(Vals) :
          R' = NewCall("AsyncResult.mapOrElse", "Promise", <<defaultFn, fn>>)
    /\ UNCHANGED <<sync, A, B>>

AsyncResult_mapErr_call ==
    /\ Callable("AsyncResult")
    /\ \E fn \in AsyncFns(Vals) :
          R' = NewCall("AsyncResult.mapErr", "AsyncResult", <<fn>>)
    /\ UNCHANGED <<sync, A, B>>

AsyncResult_inspect_call ==
    /\ Callable("AsyncResult")
    /\ \E fn \in AsyncFns({Null}) :
          R' = NewCall("AsyncResult.inspect", "AsyncResult", <<fn>>)
    /\ UNCHANGED <<sync, A, B>>

AsyncResult_inspectErr_call ==
    /\ Callable("AsyncResult")
    /\ \E fn \in AsyncFns({Null}) :
          R' = NewCall("AsyncResult.inspectErr", "AsyncResult", <<fn>>)
    /\ UNCHANGED <<sync, A, B>>

AsyncResult_and_call ==
    /\ Callable("AsyncResult")
    /\ R' = NewCall("AsyncResult.and", "AsyncResult", <<>>)
    /\ B' = NewOperand("AsyncResult")
    /\ UNCHANGED <<sync, A>>

AsyncResult_andThen_call ==
    /\ Callable("AsyncResult")
    /\ \E fn \in SyncFns({"resultB"}) :
          R' = NewCall("AsyncResult.andThen", "AsyncResult", <<fn>>)
    /\ B' = NewOperand("AsyncResult")
    /\ UNCHANGED <<sync, A>>

AsyncResult_chain_call ==
    /\ Callable("AsyncResult")
    /\ \E fn \in SyncFns({"resultB"}) :
          R' = NewCall("AsyncResult.chain", "AsyncResult", <<fn>>)
    /\ B' = NewOperand("AsyncResult")
    /\ UNCHANGED <<sync, A>>

AsyncResult_or_call ==
    /\ Callable("AsyncResult")
    /\ R' = NewCall("AsyncResult.or", "AsyncResult", <<>>)
    /\ B' = NewOperand("AsyncResult")
    /\ UNCHANGED <<sync, A>>

AsyncResult_orElse_call ==
    /\ Callable("AsyncResult")
    /\ \E fn \in SyncFns({"resultB"}) :
          R' = NewCall("AsyncResult.orElse", "AsyncResult", <<fn>>)
    /\ B' = NewOperand("AsyncResult")
    /\ UNCHANGED <<sync, A>>

AsyncResult_unwrapOrElse_call ==
    /\ Callable("AsyncResult")
    /\ \E fn \in AsyncFns(Vals) :
          R' = NewCall("AsyncResult.unwrapOrElse", "Promise", <<fn>>)
    /\ UNCHANGED <<sync, A, B>>

\* for await (const x of A): the loop asks for the first element.  seen is
\* the list of the elements the loop has taken.
AsyncIteratorOps == {"AsyncOption.asyncIterator", "AsyncResult.asyncIterator"}

AsyncIteration(op) ==
    [op |-> op, cls |-> "AsyncIterator", args |-> <<>>, pc |-> "awaitThis", calls |-> <<>>,
     fnp |-> Pending, inner |-> Pending, promise |-> Pending, thrown |-> Null, seen |-> <<>>]

AsyncOption_asyncIterator_call ==
    /\ Callable("AsyncOption")
    /\ R' = AsyncIteration("AsyncOption.asyncIterator")
    /\ UNCHANGED <<sync, A, B>>

AsyncResult_asyncIterator_call ==
    /\ Callable("AsyncResult")
    /\ R' = AsyncIteration("AsyncResult.asyncIterator")
    /\ UNCHANGED <<sync, A, B>>

\* The loop takes the element and asks for the next one: the body resumes.
AsyncIterator_next ==
    /\ R # NoCall /\ R.pc = "yielded"
    /\ R' = [Advance(R, IF R.op = "AsyncOption.asyncIterator"
                        THEN AsyncOption_asyncIterator_resumed(A.promise)
                        ELSE AsyncResult_asyncIterator_resumed(A.promise))
               EXCEPT !.seen = Append(@, R.inner.val.value)]
    /\ UNCHANGED <<sync, A, B>>

AsyncNext ==
    \/ AsyncOption_new \/ AsyncOption_fromOption_call \/ AsyncOption_fromPromise_call
    \/ AsyncResult_new \/ AsyncResult_fromResult_call \/ AsyncResult_fromPromise_call
    \/ Source_fulfil \/ Source_reject \/ Operand_fulfil \/ Operand_reject
    \/ AsyncOption_getOption_call \/ AsyncOption_unwrap_call \/ AsyncOption_match_call
    \/ AsyncOption_map_call \/ AsyncOption_inspect_call \/ AsyncOption_inspect_then_call \/ AsyncOption_filter_call
    \/ AsyncOption_okOr_call \/ AsyncOption_okOr_throws_call \/ AsyncOption_and_call \/ AsyncOption_andThen_call
    \/ AsyncOption_or_call \/ AsyncOption_orElse_call \/ AsyncOption_xor_call
    \/ AsyncOption_zip_call \/ AsyncOption_zipWith_call
    \/ AsyncResult_getResult_call \/ AsyncResult_isOk_call \/ AsyncResult_isErr_call
    \/ AsyncResult_match_call \/ AsyncResult_unwrap_call \/ AsyncResult_unwrapErr_call
    \/ AsyncResult_unwrapOr_call
    \/ AsyncOption_isSome_call \/ AsyncOption_isNone_call \/ AsyncOption_isSomeAnd_call
    \/ AsyncOption_isNoneOr_call \/ AsyncOption_unwrapOr_call \/ AsyncOption_unwrapOrElse_call
    \/ AsyncOption_mapOr_call \/ AsyncOption_mapOrElse_call \/ AsyncResult_isOkAnd_call
    \/ AsyncResult_isErrAnd_call \/ AsyncResult_ok_call \/ AsyncResult_err_call
    \/ AsyncResult_map_call \/ AsyncResult_mapOr_call \/ AsyncResult_mapOrElse_call
    \/ AsyncResult_mapErr_call \/ AsyncResult_inspect_call \/ AsyncResult_inspectErr_call
    \/ AsyncResult_and_call \/ AsyncResult_andThen_call \/ AsyncResult_chain_call
    \/ AsyncResult_or_call \/ AsyncResult_orElse_call \/ AsyncResult_unwrapOrElse_call
    \/ Call_run \/ Callback_fulfil \/ Callback_reject \/ Call_resume \/ Call_resumeB
    \/ AsyncOption_asyncIterator_call \/ AsyncResult_asyncIterator_call
    \/ AsyncIterator_next \/ Unawaited_settle
    \/ Release \/ Continue

(***************************************************************************)
(* The synchronous calls.  A client calls one method on one value; the     *)
(* call runs to completion and the client goes on to its next call.        *)
(***************************************************************************)
\* A synchronous call reads and writes no wrapper: it is taken from the state
\* in which no wrapper has been made yet.
Resting == sync = Idle /\ A = NoWrapper

SyncCall(op, self, args, out) == [op |-> op, self |-> self, args |-> args, out |-> out]

\* The matchers { Some, None } and { Ok, Err } a client passes to match.
OptionMatchers == [Some : UnaryFns(Vals), None : NullaryFns(Vals)]

ResultMatchers == [Ok : UnaryFns(Vals), Err : UnaryFns(Vals)]

Option_isSome_call ==
    /\ Resting
    /\ \E o \in Options : sync' = SyncCall("Option.isSome", o, <<>>, Option_isSome(o))
    /\ UNCHANGED <<A, B, R>>

Option_isNone_call ==
    /\ Resting
    /\ \E o \in Options : sync' = SyncCall("Option.isNone", o, <<>>, Option_isNone(o))
    /\ UNCHANGED <<A, B, R>>

Option_unwrap_call ==
    /\ Resting
    /\ \E o \in Options, args \in MessageArgs :
          sync' = SyncCall("Option.unwrap", o, args, Option_unwrap(o, args))
    /\ UNCHANGED <<A, B, R>>

Option_map_call ==
    /\ Resting
    /\ \E o \in Options, fn \in UnaryFns(Vals) :
          sync' = SyncCall("Option.map", o, <<fn>>, Option_map(o, fn))
    /\ UNCHANGED <<A, B, R>>

Option_andThen_call ==
    /\ Resting
    /\ \E o \in Options, fn \in UnaryFns(Options) :
          sync' = SyncCall("Option.andThen", o, <<fn>>, Option_andThen(o, fn))
    /\ UNCHANGED <<A, B, R>>

Option_match_call ==
    /\ Resting
    /\ \E o \in Options, matcher \in OptionMatchers :
          sync' = SyncCall("Option.match", o, <<matcher>>, Option_match(o, matcher))
    /\ UNCHANGED <<A, B, R>>

Result_isOk_call ==
    /\ Resting
    /\ \E r \in Results : sync' = SyncCall("Result.isOk", r, <<>>, Result_isOk(r))
    /\ UNCHANGED <<A, B, R>>

Result_isErr_call ==
    /\ Resting
    /\ \E r \in Results : sync' = SyncCall("Result.isErr", r, <<>>, Result_isErr(r))
    /\ UNCHANGED <<A, B, R>>

Result_unwrap_call ==
    /\ Resting
    /\ \E r \in Results, args \in MessageArgs :
          sync' = SyncCall("Result.unwrap", r, args, Result_unwrap(r, args))
    /\ UNCHANGED <<A, B, R>>

Result_unwrapErr_call ==
    /\ Resting
    /\ \E r \in Results, args \in MessageArgs :
          sync' = SyncCall("Result.unwrapErr", r, args, Result_unwrapErr(r, args))
    /\ UNCHANGED <<A, B, R>>

Result_match_call ==
    /\ Resting
    /\ \E r \in Results, matcher \in ResultMatchers :
          sync' = SyncCall("Result.match", r, <<matcher>>, Result_match(r, matcher))
    /\ UNCHANGED <<A, B, R>>

\* The callbacks of two arguments a client passes to zipWith: the two
\* projections, the constant functions and the function that throws.
Pairs == {<<x, y>> : x \in Vals, y \in Vals}

BinaryFns ==
    {[args \in Pairs |-> Return(args[1])], [args \in Pairs |-> Return(args[2])]}
    \cup {[args \in Pairs |-> c] : c \in {Return(v) : v \in Vals} \cup {Throw(e) : e \in CallbackErrors}}

Option_isSomeAnd_call ==
    /\ Resting
    /\ \E o \in Options, fn \in UnaryFns(BOOLEAN) :
          sync' = SyncCall("Option.isSomeAnd", o, <<fn>>, Option_isSomeAnd(o, fn))
    /\ UNCHANGED <<A, B, R>>

Option_isNoneOr_call ==
    /\ Resting
    /\ \E o \in Options, fn \in UnaryFns(BOOLEAN) :
          sync' = SyncCall("Option.isNoneOr", o, <<fn>>, Option_isNoneOr(o, fn))
    /\ UNCHANGED <<A, B, R>>

Option_unwrapOr_call ==
    /\ Resting
    /\ \E o \in Options, defaultValue \in Vals :
          sync' = SyncCall("Option.unwrapOr", o, <<defaultValue>>,
                           Option_unwrapOr(o, defaultValue))
    /\ UNCHANGED <<A, B, R>>

Option_unwrapOrElse_call ==
    /\ Resting
    /\ \E o \in Options, fn \in NullaryFns(Vals) :
          sync' = SyncCall("Option.unwrapOrElse", o, <<fn>>, Option_unwrapOrElse(o, fn))
    /\ UNCHANGED <<A, B, R>>

Option_inspect_call ==
    /\ Resting
    /\ \E o \in Options, fn \in UnaryFns({Null}) :
          sync' = SyncCall("Option.inspect", o, <<fn>>, Option_inspect(o, fn))
    /\ UNCHANGED <<A, B, R>>

Option_mapOr_call ==
    /\ Resting
    /\ \E o \in Options, defaultValue \in Vals, fn \in UnaryFns(Vals) :
          sync' = SyncCall("Option.mapOr", o, <<defaultValue, fn>>,
                           Option_mapOr(o, defaultValue, fn))
    /\ UNCHANGED <<A, B, R>>

Option_mapOrElse_call ==
    /\ Resting
    /\ \E o \in Options, defaultFn \in NullaryFns(Vals), someFn \in UnaryFns(Vals) :
          sync' = SyncCall("Option.mapOrElse", o, <<defaultFn, someFn>>,
                           Option_mapOrElse(o, defaultFn, someFn))
    /\ UNCHANGED <<A, B, R>>

Option_okOr_call ==
    /\ Resting
    /\ \E o \in Options, error \in Vals :
          sync' = SyncCall("Option.okOr", o, <<error>>, Option_okOr(o, error))
    /\ UNCHANGED <<A, B, R>>

Option_and_call ==
    /\ Resting
    /\ \E o \in Options, optionB \in Options :
          sync' = SyncCall("Option.and", o, <<optionB>>, Option_and(o, optionB))
    /\ UNCHANGED <<A, B, R>>

Option_filter_call ==
    /\ Resting
    /\ \E o \in Options, fn \in UnaryFns(BOOLEAN) :
          sync' = SyncCall("Option.filter", o, <<fn>>, Option_filter(o, fn))
    /\ UNCHANGED <<A, B, R>>

Option_or_call ==
    /\ Resting
    /\ \E o \in Options, optionB \in Options :
          sync' = SyncCall("Option.or", o, <<optionB>>, Option_or(o, optionB))
    /\ UNCHANGED <<A, B, R>>

Option_orElse_call ==
    /\ Resting
    /\ \E o \in Options, fn \in NullaryFns(Options) :
          sync' = SyncCall("Option.orElse", o, <<fn>>, Option_orElse(o, fn))
    /\ UNCHANGED <<A, B, R>>

Option_xor_call ==
    /\ Resting
    /\ \E o \in Options, optionB \in Options :
          sync' = SyncCall("Option.xor", o, <<optionB>>, Option_xor(o, optionB))
    /\ UNCHANGED <<A, B, R>>

Option_zip_call ==
    /\ Resting
    /\ \E o \in Options, optionB \in Options :
          sync' = SyncCall("Option.zip", o, <<optionB>>, Option_zip(o, optionB))
    /\ UNCHANGED <<A, B, R>>

Option_zipWith_call ==
    /\ Resting
    /\ \E o \in Options, optionB \in Options, fn \in BinaryFns :
          sync' = SyncCall("Option.zipWith", o, <<optionB, fn>>,
                           Option_zipWith(o, optionB, fn))
    /\ UNCHANGED <<A, B, R>>

Result_isOkAnd_call ==
    /\ Resting
    /\ \E r \in Results, fn \in UnaryFns(BOOLEAN) :
          sync' = SyncCall("Result.isOkAnd", r, <<fn>>, Result_isOkAnd(r, fn))
    /\ UNCHANGED <<A, B, R>>

Result_isErrAnd_call ==
    /\ Resting
    /\ \E r \in Results, fn \in UnaryFns(BOOLEAN) :
          sync' = SyncCall("Result.isErrAnd", r, <<fn>>, Result_isErrAnd(r, fn))
    /\ UNCHANGED <<A, B, R>>

Result_ok_call ==
    /\ Resting
    /\ \E r \in Results : sync' = SyncCall("Result.ok", r, <<>>, Result_ok(r))
    /\ UNCHANGED <<A, B, R>>

Result_err_call ==
    /\ Resting
    /\ \E r \in Results : sync' = SyncCall("Result.err", r, <<>>, Result_err(r))
    /\ UNCHANGED <<A, B, R>>

Result_map_call ==
    /\ Resting
    /\ \E r \in Results, fn \in UnaryFns(Vals) :
          sync' = SyncCall("Result.map", r, <<fn>>, Result_map(r, fn))
    /\ UNCHANGED <<A, B, R>>

Result_mapOr_call ==
    /\ Resting
    /\ \E r \in Results, defaultValue \in Vals, fn \in UnaryFns(Vals) :
          sync' = SyncCall("Result.mapOr", r, <<defaultValue, fn>>,
                           Result_mapOr(r, defaultValue, fn))
    /\ UNCHANGED <<A, B, R>>

Result_mapOrElse_call ==
    /\ Resting
    /\ \E r \in Results, defaultFn \in UnaryFns(Vals), fn \in UnaryFns(Vals) :
          sync' = SyncCall("Result.mapOrElse", r, <<defaultFn, fn>>,
                           Result_mapOrElse(r, defaultFn, fn))
    /\ UNCHANGED <<A, B, R>>

Result_mapErr_call ==
    /\ Resting
    /\ \E r \in Results, fn \in UnaryFns(Vals) :
          sync' = SyncCall("Result.mapErr", r, <<fn>>, Result_mapErr(r, fn))
    /\ UNCHANGED <<A, B, R>>

Result_inspect_call ==
    /\ Resting
    /\ \E r \in Results, fn \in UnaryFns({Null}) :
          sync' = SyncCall("Result.inspect", r, <<fn>>, Result_inspect(r, fn))
    /\ UNCHANGED <<A, B, R>>

Result_inspectErr_call ==
    /\ Resting
    /\ \E r \in Results, fn \in UnaryFns({Null}) :
          sync' = SyncCall("Result.inspectErr", r, <<fn>>, Result_inspectErr(r, fn))
    /\ UNCHANGED <<A, B, R>>

Result_unwrapOr_call ==
    /\ Resting
    /\ \E r \in Results, defaultValue \in Vals :
          sync' = SyncCall("Result.unwrapOr", r, <<defaultValue>>,
                           Result_unwrapOr(r, defaultValue))
    /\ UNCHANGED <<A, B, R>>

Result_unwrapOrElse_call ==
    /\ Resting
    /\ \E r \in Results, fn \in UnaryFns(Vals) :
          sync' = SyncCall("Result.unwrapOrElse", r, <<fn>>, Result_unwrapOrElse(r, fn))
    /\ UNCHANGED <<A, B, R>>

Result_and_call ==
    /\ Resting
    /\ \E r \in Results, resultB \in Results :
          sync' = SyncCall("Result.and", r, <<resultB>>, Result_and(r, resultB))
    /\ UNCHANGED <<A, B, R>>

Result_andThen_call ==
    /\ Resting
    /\ \E r \in Results, fn \in UnaryFns(Results) :
          sync' = SyncCall("Result.andThen", r, <<fn>>, Result_andThen(r, fn))
    /\ UNCHANGED <<A, B, R>>

Result_chain_call ==
    /\ Resting
    /\ \E r \in Results, fn \in UnaryFns(Results) :
          sync' = SyncCall("Result.chain", r, <<fn>>, Result_chain(r, fn))
    /\ UNCHANGED <<A, B, R>>

Result_or_call ==
    /\ Resting
    /\ \E r \in Results, resultB \in Results :
          sync' = SyncCall("Result.or", r, <<resultB>>, Result_or(r, resultB))
    /\ UNCHANGED <<A, B, R>>

Result_orElse_call ==
    /\ Resting
    /\ \E r \in Results, fn \in UnaryFns(Results) :
          sync' = SyncCall("Result.orElse", r, <<fn>>, Result_orElse(r, fn))
    /\ UNCHANGED <<A, B, R>>

\* o.okOr(error).ok(): the Result okOr returned is kept in via, and ok() is
\* called on it.
Option_okOr_ok ==
    /\ Resting
    /\ \E o \in Options, error \in Vals :
          LET c == Option_okOr(o, error)
          IN  sync' = [op |-> "Option.okOr.ok", self |-> o, args |-> <<error>>,
                       out |-> Outcome(Result_ok(c.val)), via |-> c.val]
    /\ UNCHANGED <<A, B, R>>

\* a.andThen(f).andThen(g): the second call is made on what the first returned,
\* and is not made when the first threw.
AndThen_chained(a, f, g) ==
    LET c == Option_andThen(a, f)
    IN  IF c.kind = "throw" THEN Outcome(c) ELSE Outcome(Option_andThen(c.val, g))

\* a.andThen(x => f(x).andThen(g)).
AndThen_nested(a, f, g) ==
    LET h == [args \in DOMAIN f |->
                 LET c == f[args]
                 IN  IF c.kind = "throw" THEN c ELSE Outcome(Option_andThen(c.val, g))]
    IN  Outcome(Option_andThen(a, h))

\* The client evaluates both groupings of one andThen chain.
Option_andThen_twice ==
    /\ Resting
    /\ \E a \in Options, f \in UnaryFns(Options), g \in UnaryFns(Options) :
          sync' = [op |-> "Option.andThen.andThen", self |-> a, args |-> <<f, g>>,
                   out |-> AndThen_chained(a, f, g), nested |-> AndThen_nested(a, f, g)]
    /\ UNCHANGED <<A, B, R>>

\* The number of iterators a client asks of one value.
MaxIterators == 2

IteratorOps == {"Option.iterator", "Result.iterator"}

\* o[Symbol.iterator](): its holds the generator objects the client has asked
\* of self, seen the elements each has handed out, done whether it has
\* reported done.
Iteration(op, self, gen) ==
    [op |-> op, self |-> self, args |-> <<>>, out |-> Done(Return("Generator")),
     its |-> <<gen>>, seen |-> << <<>> >>, done |-> <<FALSE>>]

Option_iterator_call ==
    /\ Resting
    /\ \E o \in Options : sync' = Iteration("Option.iterator", o, Option_iterator(o))
    /\ UNCHANGED <<A, B, R>>

Result_iterator_call ==
    /\ Resting
    /\ \E r \in Results : sync' = Iteration("Result.iterator", r, Result_iterator(r))
    /\ UNCHANGED <<A, B, R>>

\* The client asks the same value for another iterator.
Iterator_again ==
    /\ sync.op \in IteratorOps /\ Len(sync.its) < MaxIterators
    /\ sync' = [sync EXCEPT
                   !.its = Append(@, IF sync.op = "Option.iterator"
                                     THEN Option_iterator(sync.self)
                                     ELSE Result_iterator(sync.self)),
                   !.seen = Append(@, <<>>),
                   !.done = Append(@, FALSE)]
    /\ UNCHANGED <<A, B, R>>

\* The client calls next() on one of its iterators.
Iterator_next ==
    /\ sync.op \in IteratorOps
    /\ \E i \in DOMAIN sync.its :
          /\ ~sync.done[i]
          /\ LET n == Generator_next(sync.its[i])
             IN  sync' = [sync EXCEPT
                             !.its[i] = n.gen,
                             !.seen[i] = IF n.result.done THEN @ ELSE Append(@, n.result.value),
                             !.done[i] = n.result.done]
    /\ UNCHANGED <<A, B, R>>

\* The call has completed; the client is free to make the next one.
SyncReturn ==
    /\ sync # Idle
    /\ sync' = Idle
    /\ UNCHANGED <<A, B, R>>

SyncNext ==
    \/ Option_isSome_call \/ Option_isNone_call \/ Option_unwrap_call
    \/ Option_map_call \/ Option_andThen_call \/ Option_match_call
    \/ Result_isOk_call \/ Result_isErr_call \/ Result_unwrap_call
    \/ Result_unwrapErr_call \/ Result_match_call
    \/ Option_isSomeAnd_call \/ Option_isNoneOr_call \/ Option_unwrapOr_call
    \/ Option_unwrapOrElse_call \/ Option_inspect_call \/ Option_mapOr_call
    \/ Option_mapOrElse_call \/ Option_okOr_call \/ Option_and_call
    \/ Option_filter_call \/ Option_or_call \/ Option_orElse_call
    \/ Option_xor_call \/ Option_zip_call \/ Option_zipWith_call
    \/ Result_isOkAnd_call \/ Result_isErrAnd_call \/ Result_ok_call
    \/ Result_err_call \/ Result_map_call \/ Result_mapOr_call
    \/ Result_mapOrElse_call \/ Result_mapErr_call \/ Result_inspect_call
    \/ Result_inspectErr_call \/ Result_unwrapOr_call \/ Result_unwrapOrElse_call
    \/ Result_and_call \/ Result_andThen_call \/ Result_chain_call
    \/ Result_or_call \/ Result_orElse_call
    \/ Option_okOr_ok
    \/ Option_andThen_twice
    \/ Option_iterator_call \/ Result_iterator_call \/ Iterator_again \/ Iterator_next
    \/ SyncReturn

Init == sync = Idle /\ A = NoWrapper /\ B = NoWrapper /\ R = NoCall

Next == SyncNext \/ AsyncNext

Spec == Init /\ [][Next]_vars

\* The event loop resumes an async function whose awaited promise has settled
\* (the steps of the call), and, as the settlement claim supposes, every
\* promise handed to a wrapper and every promise a callback returned is
\* eventually fulfilled or rejected.
FairSpec ==
    /\ Spec
    /\ WF_vars(Call_run) /\ WF_vars(Call_resume) /\ WF_vars(Call_resumeB)
    /\ WF_vars(Source_fulfil \/ Source_reject)
    /\ WF_vars(Operand_fulfil \/ Operand_reject)
    /\ WF_vars(Callback_fulfil \/ Callback_reject)


(***************************************************************************)
(* Properties.                                                             *)
(***************************************************************************)
IsOption(x) == x.tag \in {"Some", "None"}

\* A promise of an Option that is not rejected and, once fulfilled, holds a
\* Some or a None.
ResolvesToOption(p) == p.st # "rejected" /\ (p.st = "fulfilled" => IsOption(p.val))

FulfilledWith(p, v) == p.st = "fulfilled" /\ p.val = v

RejectedWith(p, e) == p.st = "rejected" /\ p.val = e

\* The promise the call in progress returned has settled.
Returned_settled(op) == R # NoCall /\ R.op = op /\ R.pc = "settled"

\* C1: the promise of every AsyncOption, however the wrapper was obtained
\* (a factory, or a chain of combinators whose promises reject or whose
\* callbacks throw or return rejecting promises), is never rejected, and the
\* promise getOption() returns is never rejected: once settled it is fulfilled
\* with a Some or a None.
C1_getOption_never_rejects ==
    /\ A.cls = "AsyncOption" => ResolvesToOption(A.promise)
    /\ B.cls = "AsyncOption" => ResolvesToOption(B.promise)
    /\ (R # NoCall /\ R.cls = "AsyncOption") => ResolvesToOption(R.promise)
    /\ (R # NoCall /\ R.op = "AsyncOption.getOption") =>
          /\ ResolvesToOption(R.promise)
          /\ R.pc = "settled" => R.promise.st = "fulfilled"

\* getOption() has settled on a wrapper returned by inspect whose async
\* function rejected.
C1_witness ==
    /\ Returned_settled("AsyncOption.getOption")
    /\ A.how = "AsyncOption.inspect" /\ A.src.st = "rejected"

\* C2: the wrapper AsyncOption.fromPromise(p) resolves to Some(v) when p is
\* fulfilled with v, and to None, without rejecting, when p is rejected.
C2_fromPromise_some_or_none ==
    (A.cls = "AsyncOption" /\ A.how = "fromPromise") =>
        /\ A.src.st = "pending" => A.promise.st = "pending"
        /\ A.src.st = "fulfilled" => FulfilledWith(A.promise, some(A.src.val))
        /\ A.src.st = "rejected" => FulfilledWith(A.promise, none)
        /\ Returned_settled("AsyncOption.getOption") => R.promise = A.promise

\* getOption() has settled on fromPromise(p), p rejected.
C2_witness ==
    /\ A.cls = "AsyncOption" /\ A.how = "fromPromise" /\ A.src.st = "rejected"
    /\ Returned_settled("AsyncOption.getOption")

\* The operations of AsyncResult that resolve the wrapped promise.
ResolvingOps ==
    {"AsyncResult.getResult", "AsyncResult.isOk", "AsyncResult.isErr",
     "AsyncResult.match", "AsyncResult.unwrap", "AsyncResult.unwrapErr",
     "AsyncResult.unwrapOr"}

\* C3: on an AsyncResult made by the plain constructor from a promise rejected
\* with a reason, the wrapper's promise is rejected with that reason (it is not
\* an Err), and getResult, isOk, isErr, match, unwrap, unwrapErr and unwrapOr
\* reject with that same reason, without invoking a handler.
C3_constructor_rejection_passes ==
    (A.cls = "AsyncResult" /\ A.how = "constructor" /\ A.src.st = "rejected") =>
        /\ RejectedWith(A.promise, A.src.val)
        /\ (R # NoCall /\ R.op \in ResolvingOps /\ R.pc # "awaitThis") =>
              /\ R.pc = "settled"
              /\ RejectedWith(R.promise, A.src.val)
              /\ R.calls = <<>>

\* match has run on new AsyncResult(p), p rejected with 1.
C3_witness ==
    /\ A.cls = "AsyncResult" /\ A.how = "constructor" /\ RejectedWith(A.src, 1)
    /\ Returned_settled("AsyncResult.match")

\* C4: the wrapper AsyncResult.fromPromise(p) is never rejected: it resolves to
\* Ok(v) when p is fulfilled with v and to Err(reason) when p is rejected.
C4_fromPromise_ok_or_err ==
    (A.cls = "AsyncResult" /\ A.how = "fromPromise") =>
        /\ A.src.st = "pending" => A.promise.st = "pending"
        /\ A.src.st = "fulfilled" => FulfilledWith(A.promise, ok(A.src.val))
        /\ A.src.st = "rejected" => FulfilledWith(A.promise, err(A.src.val))
        /\ Returned_settled("AsyncResult.getResult") => R.promise = A.promise

\* getResult() has settled on fromPromise(p), p rejected with 1.
C4_witness ==
    /\ A.cls = "AsyncResult" /\ A.how = "fromPromise" /\ RejectedWith(A.src, 1)
    /\ Returned_settled("AsyncResult.getResult")

\* The handler of the variant of x, and the arguments match passes to it.
HandlerOf(x) == x.tag

PayloadOf(x) ==
    CASE x.tag = "Some" -> <<x.value>>
      [] x.tag = "None" -> <<>>
      [] x.tag = "Ok" -> <<x.value>>
      [] x.tag = "Err" -> <<x.error>>

\* C5: match invokes exactly one handler, once: the handler of the value's
\* variant, with its payload; and it returns that handler's result.  For a
\* synchronous value the completion of match is the completion of the handler;
\* for a wrapper resolved to a value, the promise match returns is fulfilled
\* with what the handler returned, rejected with what it threw, or settled as
\* the promise the handler returned.
C5_match_total ==
    /\ sync.op \in {"Option.match", "Result.match"} =>
          /\ sync.out.calls =
                <<[fn |-> HandlerOf(sync.self), args |-> PayloadOf(sync.self)]>>
          /\ Outcome(sync.out) = sync.args[1][HandlerOf(sync.self)][PayloadOf(sync.self)]
    /\ (/\ R # NoCall /\ R.op \in {"AsyncOption.match", "AsyncResult.match"}
        /\ A.promise.st = "fulfilled" /\ R.pc # "awaitThis") =>
          LET x == A.promise.val
              handler == R.args[1][HandlerOf(x)]
          IN  /\ R.calls = <<[fn |-> HandlerOf(x), args |-> PayloadOf(x)]>>
              /\ handler.kind = "return" => FulfilledWith(R.promise, handler.val)
              /\ handler.kind = "throw" => RejectedWith(R.promise, handler.val)
              /\ handler.kind = "promise" =>
                    \/ R.pc = "awaitFn" /\ R.promise.st = "pending"
                    \/ R.pc = "settled" /\ Settled(R.fnp) /\ R.promise = R.fnp

\* match has settled on a wrapper resolved to Some(1), with a Some handler
\* that returned a promise.
C5_witness ==
    /\ Returned_settled("AsyncOption.match")
    /\ FulfilledWith(A.promise, some(1))
    /\ R.args[1].Some = ReturnsPromise /\ FulfilledWith(R.promise, 0)

\* What x is an UnwrapError with the payload error and, when the argument list
\* args holds a message, with that message.
IsUnwrapFailure(c, error, args) ==
    /\ c.kind = "throw"
    /\ c.val.name = "UnwrapError"
    /\ c.val.error = error
    /\ args # <<>> => c.val.message = args[1]

\* C6: err(e).unwrap(m) throws an UnwrapError whose error is e,
\* ok(v).unwrapErr(m) one whose error is v, none().unwrap(m) one whose error is
\* null; the message is m when m is supplied.
C6_unwrap_failure_payload ==
    /\ (sync.op = "Result.unwrap" /\ sync.self.tag = "Err") =>
          IsUnwrapFailure(sync.out, sync.self.error, sync.args)
    /\ (sync.op = "Result.unwrapErr" /\ sync.self.tag = "Ok") =>
          IsUnwrapFailure(sync.out, sync.self.value, sync.args)
    /\ (sync.op = "Option.unwrap" /\ sync.self.tag = "None") =>
          IsUnwrapFailure(sync.out, Null, sync.args)

\* err(1).unwrap("m2") has thrown.
C6_witness ==
    /\ sync.op = "Result.unwrap" /\ sync.self = err(1) /\ sync.args = <<"m2">>
    /\ sync.out.kind = "throw"

\* No callback of the synchronous call in progress throws.
SyncCallbacksReturn ==
    LET returns(fn) == \A a \in DOMAIN fn : fn[a].kind = "return"
    IN  CASE sync.op \in {"Option.map", "Option.andThen"} -> returns(sync.args[1])
          [] sync.op = "Option.match" ->
                returns(sync.args[1].Some) /\ returns(sync.args[1].None)
          [] sync.op = "Result.match" ->
                returns(sync.args[1].Ok) /\ returns(sync.args[1].Err)
          [] sync.op = "Option.andThen.andThen" ->
                returns(sync.args[1]) /\ returns(sync.args[2])
          [] OTHER -> TRUE

\* No callback of the asynchronous call in progress throws or returns a
\* promise that rejects, and no promise handed to a wrapper is rejected.
AsyncCallbacksReturn ==
    /\ A.src.st # "rejected"
    /\ B # NoWrapper => B.src.st # "rejected"
    /\ R.fnp.st # "rejected"
    /\ CASE R.op \in {"AsyncOption.match"} ->
                R.args[1].Some.kind # "throw" /\ R.args[1].None.kind # "throw"
         [] R.op \in {"AsyncResult.match"} ->
                R.args[1].Ok.kind # "throw" /\ R.args[1].Err.kind # "throw"
         [] R.op \in {"AsyncOption.map", "AsyncOption.inspect", "AsyncOption.filter",
                      "AsyncOption.andThen", "AsyncOption.orElse",
                      "AsyncOption.zipWith"} -> R.args[1].kind # "throw"
         [] OTHER -> TRUE

\* C7: given callbacks that do not throw and promises that do not reject, a
\* call throws or rejects only when it is unwrap on a None or an Err, or
\* unwrapErr on an Ok, and what it throws or rejects with is an UnwrapError.
C7_only_unwrap_fails ==
    /\ (sync.op # "idle" /\ SyncCallbacksReturn /\ sync.out.kind = "throw") =>
          /\ \/ sync.op = "Option.unwrap" /\ sync.self.tag = "None"
             \/ sync.op = "Result.unwrap" /\ sync.self.tag = "Err"
             \/ sync.op = "Result.unwrapErr" /\ sync.self.tag = "Ok"
          /\ sync.out.val.name = "UnwrapError"
    /\ (R # NoCall /\ AsyncCallbacksReturn) =>
          /\ R.pc # "threw"
          /\ R.inner.st = "rejected" =>
                /\ \/ R.op = "AsyncOption.unwrap" /\ A.promise.val.tag = "None"
                   \/ R.op = "AsyncResult.unwrap" /\ A.promise.val.tag = "Err"
                   \/ R.op = "AsyncResult.unwrapErr" /\ A.promise.val.tag = "Ok"
                /\ R.inner.val.name = "UnwrapError"

\* C8: some(v).isSome() is true and some(v).unwrap() returns v; none().isNone()
\* is true; isSome() and isNone() are complements on every Option, isOk() and
\* isErr() on every Result; none of these calls invokes anything or changes a
\* wrapper.
C8_predicates_complement ==
    /\ sync.op = "Option.isSome" => sync.out = Done(Return(sync.self.tag = "Some"))
    /\ sync.op = "Option.isNone" => sync.out = Done(Return(sync.self.tag # "Some"))
    /\ sync.op = "Result.isOk" => sync.out = Done(Return(sync.self.tag = "Ok"))
    /\ sync.op = "Result.isErr" => sync.out = Done(Return(sync.self.tag # "Ok"))
    /\ (sync.op = "Option.unwrap" /\ sync.self.tag = "Some") =>
          sync.out = Done(Return(sync.self.value))
    /\ \A o \in Options : Option_isSome(o).val # Option_isNone(o).val
    /\ \A r \in Results : Result_isOk(r).val # Result_isErr(r).val
    /\ sync.op # "idle" => A = NoWrapper /\ B = NoWrapper /\ R = NoCall

\* none().isNone() has returned.
C8_witness == sync.op = "Option.isNone" /\ sync.self = none /\ sync.out.kind = "return"

\* x => x
Identity == [a \in {<<v>> : v \in Vals} |-> Return(a[1])]

\* C9: some(v).map(x => x) returns some(v); none().map(f) returns none() and
\* does not invoke f.
C9_map_identity ==
    sync.op = "Option.map" =>
        /\ (sync.self.tag = "Some" /\ sync.args[1] = Identity) =>
              Outcome(sync.out) = Return(sync.self)
        /\ sync.self.tag = "None" => sync.out = Done(Return(none))

\* some(1).map(x => x) has returned.
C9_witness ==
    /\ sync.op = "Option.map" /\ sync.self = some(1) /\ sync.args[1] = Identity
    /\ sync.out.kind = "return"

\* C10: a.andThen(f).andThen(g) completes as a.andThen(x => f(x).andThen(g))
\* does, for every Option a and all f and g.
C10_andThen_associative ==
    sync.op = "Option.andThen.andThen" =>
        /\ sync.out.kind = sync.nested.kind
        /\ sync.out.val = sync.nested.val

\* Both f and g were invoked: a chain on a Some that returned a Some other
\* than the receiver.
C10_witness ==
    /\ sync.op = "Option.andThen.andThen" /\ sync.self = some(0)
    /\ sync.out.kind = "return" /\ sync.out.val = some(1)
    /\ sync.args[1][<<0>>] = Return(some(1)) /\ sync.args[2][<<1>>] = Return(some(1))
    /\ sync.args[2][<<0>>] = Return(none)

\* C11: o.okOr(e) is ok(v) when o is some(v) and err(e) when o is none(), and
\* ok() of that Result gives back o.
C11_okOr_ok_roundtrip ==
    sync.op = "Option.okOr.ok" =>
        /\ sync.out.kind = "return" /\ sync.out.val = sync.self
        /\ IF sync.self.tag = "Some"
           THEN sync.via.tag = "Ok" /\ sync.via.value = sync.self.value
           ELSE sync.via.tag = "Err" /\ sync.via.error = sync.args[1]

\* some(1).okOr(0).ok() has returned some(1), by way of ok(1).
C11_witness ==
    /\ sync.op = "Option.okOr.ok" /\ sync.self.tag = "Some" /\ sync.self.value = 1
    /\ sync.args[1] = 0 /\ sync.via.tag = "Ok" /\ sync.out.val.tag = "Some"

\* C12: a.xor(b) is a Some exactly when one of a and b is a Some and the other
\* is a None, and then it carries the value of the one that is a Some; in the
\* other cases it is a None.
C12_xor_exactly_one ==
    sync.op = "Option.xor" =>
        LET a == sync.self
            b == sync.args[1]
            r == sync.out.val
        IN  /\ sync.out.kind = "return"
            /\ (r.tag = "Some") <=> ((a.tag = "Some") # (b.tag = "Some"))
            /\ (r.tag # "Some") => r = none
            /\ (r.tag = "Some" /\ a.tag = "Some") => r.value = a.value
            /\ (r.tag = "Some" /\ b.tag = "Some") => r.value = b.value

\* some(1).xor(none()) has returned some(1).
C12_witness ==
    /\ sync.op = "Option.xor" /\ sync.self.tag = "Some" /\ sync.self.value = 1
    /\ sync.args[1].tag = "None" /\ sync.out.val.tag = "Some"

\* C13: a.zip(b) is some([x, y]) when a is some(x) and b is some(y), and none()
\* otherwise.  a.zipWith(b, fn) calls fn once, with x and y, when both are a
\* Some, and is then some(fn(x, y)) (or throws what fn threw); otherwise it is
\* none() and fn is not invoked.
C13_zip_both_some ==
    LET a == sync.self
        b == sync.args[1]
        both == a.tag = "Some" /\ b.tag = "Some"
    IN  /\ sync.op = "Option.zip" =>
              /\ sync.out.kind = "return" /\ sync.out.calls = <<>>
              /\ IF both
                 THEN /\ sync.out.val.tag = "Some"
                      /\ sync.out.val.value = <<a.value, b.value>>
                 ELSE sync.out.val.tag = "None"
        /\ sync.op = "Option.zipWith" =>
              IF both
              THEN LET c == sync.args[2][<<a.value, b.value>>]
                   IN  /\ sync.out.calls = <<[fn |-> "fn", args |-> <<a.value, b.value>>]>>
                       /\ sync.out.kind = c.kind
                       /\ c.kind = "return" =>
                             sync.out.val.tag = "Some" /\ sync.out.val.value = c.val
                       /\ c.kind = "throw" => sync.out.val = c.val
              ELSE /\ sync.out.kind = "return" /\ sync.out.calls = <<>>
                   /\ sync.out.val.tag = "None"

\* some(0).zipWith(some(1), (x, y) => y) has called fn and returned some(1).
C13_witness ==
    /\ sync.op = "Option.zipWith" /\ sync.self.tag = "Some" /\ sync.self.value = 0
    /\ sync.args[1].tag = "Some" /\ sync.args[1].value = 1
    /\ sync.args[2][<<0, 1>>] = Return(1) /\ sync.args[2][<<1, 0>>] = Return(0)
    /\ Len(sync.out.calls) = 1 /\ sync.out.kind = "return" /\ sync.out.val.tag = "Some"

\* C14: ok(v).chain(fn) calls fn once with v and completes as fn(v) does,
\* whether that is an Ok or an Err; err(e).chain(fn) returns err(e) and does not
\* invoke fn.  AsyncResult.chain does the same on what its promise resolved
\* to: it settles as the AsyncResult fn returned does, or resolves to err(e).
C14_chain ==
    /\ sync.op = "Result.chain" =>
          IF sync.self.tag = "Ok"
          THEN LET c == sync.args[1][<<sync.self.value>>]
               IN  /\ sync.out.calls = <<[fn |-> "fn", args |-> <<sync.self.value>>]>>
                   /\ sync.out.kind = c.kind /\ sync.out.val = c.val
          ELSE /\ sync.out.kind = "return" /\ sync.out.calls = <<>>
               /\ sync.out.val.tag = "Err" /\ sync.out.val.error = sync.self.error
    /\ (R.op = "AsyncResult.chain" /\ R.pc = "settled" /\ A.promise.st = "fulfilled") =>
          IF A.promise.val.tag = "Ok"
          THEN /\ R.calls = <<[fn |-> "fn", args |-> <<A.promise.val.value>>]>>
               /\ IF R.args[1].kind = "throw"
                  THEN RejectedWith(R.inner, R.args[1].val)
                  ELSE /\ R.inner.st = B.promise.st
                       /\ R.inner.val = B.promise.val
          ELSE /\ R.calls = <<>>
               /\ R.inner.st = "fulfilled" /\ R.inner.val.tag = "Err"
               /\ R.inner.val.error = A.promise.val.error

\* ok(0).chain(fn) has returned the err(1) that fn(0) returned.
C14_witness ==
    /\ sync.op = "Result.chain" /\ sync.self.tag = "Ok" /\ sync.self.value = 0
    /\ sync.args[1][<<0>>].kind = "return" /\ sync.args[1][<<0>>].val.tag = "Err"
    /\ sync.out.kind = "return" /\ sync.out.val.tag = "Err" /\ sync.out.val.error = 1

\* C15: once a call of AsyncOption.map(fn) has settled on a receiver that
\* resolved to some(v), fn was called once with v and the AsyncOption returned
\* resolves to none() when fn threw or returned a promise that rejected, and to
\* some(u) when fn returned u or a promise fulfilled with u; on a receiver that
\* resolved to none() it resolves to none() and fn was not called.
C15_map_catches ==
    (R.op = "AsyncOption.map" /\ R.pc = "settled") =>
        LET this == A.promise.val
            fn == R.args[1]
            failed == fn.kind = "throw" \/ (fn.kind = "promise" /\ R.fnp.st = "rejected")
        IN  /\ A.promise.st = "fulfilled" /\ R.promise.st = "fulfilled"
            /\ R.inner.st = "fulfilled"
            /\ IF this.tag = "None"
               THEN R.calls = <<>> /\ R.promise.val.tag = "None"
               ELSE /\ R.calls = <<[fn |-> "fn", args |-> <<this.value>>]>>
                    /\ IF failed THEN R.promise.val.tag = "None"
                       ELSE /\ R.promise.val.tag = "Some"
                            /\ R.promise.val.value =
                                  (IF fn.kind = "promise" THEN R.fnp.val ELSE fn.val)

\* map(fn) on a receiver that resolved to some(1) has settled to none(), fn
\* having thrown.
C15_witness ==
    /\ R.op = "AsyncOption.map" /\ R.pc = "settled"
    /\ A.promise.st = "fulfilled" /\ A.promise.val.tag = "Some" /\ A.promise.val.value = 1
    /\ R.args[1].kind = "throw" /\ Len(R.calls) = 1
    /\ R.promise.st = "fulfilled" /\ R.promise.val.tag = "None"

\* C16: AsyncResult.map calls fn when its receiver resolved to an Ok, and
\* AsyncResult.mapErr when it resolved to an Err.  When fn was called and threw
\* e, or returned a promise that rejected with e, getResult() of the
\* AsyncResult returned rejects with e: it does not resolve to an Err.
C16_map_mapErr_propagate ==
    (R.op \in {"AsyncResult.map", "AsyncResult.mapErr"} /\ R.pc = "settled"
        /\ A.promise.st = "fulfilled") =>
        LET fn == R.args[1]
            invoked == A.promise.val.tag = (IF R.op = "AsyncResult.map" THEN "Ok" ELSE "Err")
            got == AsyncResult_getResult(R.promise).inner
        IN  /\ invoked <=> Len(R.calls) = 1
            /\ ~invoked => R.calls = <<>>
            /\ (invoked /\ fn.kind = "throw") => RejectedWith(got, fn.val)
            /\ (invoked /\ fn.kind = "promise" /\ R.fnp.st = "rejected") =>
                  RejectedWith(got, R.fnp.val)

\* map(fn) on a receiver that resolved to ok(1) has settled, fn having thrown
\* 0: the promise of the AsyncResult returned is rejected with 0.
C16_witness ==
    /\ R.op = "AsyncResult.map" /\ R.pc = "settled"
    /\ A.promise.st = "fulfilled" /\ A.promise.val.tag = "Ok" /\ A.promise.val.value = 1
    /\ R.args[1].kind = "throw" /\ Len(R.calls) = 1
    /\ RejectedWith(R.promise, 0)

\* The positions of the callbacks in the arguments of an asynchronous call.
CallbackArgs(op) ==
    CASE op \in {"AsyncOption.mapOrElse", "AsyncResult.mapOrElse"} -> {1, 2}
      [] op \in {"AsyncOption.mapOr", "AsyncResult.mapOr"} -> {2}
      [] op \in {"AsyncOption.okOr", "AsyncOption.unwrapOr", "AsyncResult.unwrapOr",
                 "AsyncResult.unwrap", "AsyncResult.unwrapErr"} -> {}
      [] OTHER -> DOMAIN R.args

\* In the call in progress no callback throws and no promise of a callback
\* is rejected.
CallbacksDoNotFail ==
    /\ \A i \in CallbackArgs(R.op) : R.args[i].kind # "throw"
    /\ R.fnp.st # "rejected"

\* The synchronous callback that stands for the callback fn of the call in
\* progress: it returns what fn returned, or what the promise fn returned was
\* fulfilled with.
AsSync(fn, argss) ==
    [a \in argss |->
        IF fn.kind = "promise"
        THEN Return(IF R.fnp.st = "fulfilled" THEN R.fnp.val ELSE Null)
        ELSE Outcome(fn)]

\* The synchronous callback that stands for a callback whose result is not
\* awaited: it returns what fn returned, the promise itself if it is one.
Unawaited(fn, argss) == [a \in argss |-> IF fn.kind = "throw" THEN Outcome(fn) ELSE Return(fn.val)]

Unary == {<<v>> : v \in Vals}

Nullary == {<<>>}

\* The values the operand of the call in progress stands for: what its promise
\* resolved to or, as long as the call has not awaited it, every value.
ResolvedOperands(values) ==
    IF B.cls # "none" /\ B.promise.st = "fulfilled" THEN {B.promise.val} ELSE values

\* The asynchronous call settled as the synchronous call c completed: with the
\* same calls of the callbacks and the same value, or with an UnwrapError of
\* the same payload.
Mirrors(c) ==
    /\ R.calls = c.calls
    /\ IF c.kind = "return"
       THEN R.inner.st = "fulfilled" /\ R.inner.val = c.val
       ELSE /\ R.inner.st = "rejected" /\ R.inner.val.name = "UnwrapError"
            /\ c.val.name = "UnwrapError" /\ R.inner.val.error = c.val.error

\* o.op(args), for the method op of AsyncOption called with the arguments args
\* and the operand b.
Option_mirror(op, o, args, b) ==
    CASE op = "AsyncOption.isSome" -> Option_isSome(o)
      [] op = "AsyncOption.isSomeAnd" -> Option_isSomeAnd(o, AsSync(args[1], Unary))
      [] op = "AsyncOption.isNone" -> Option_isNone(o)
      [] op = "AsyncOption.isNoneOr" -> Option_isNoneOr(o, AsSync(args[1], Unary))
      [] op = "AsyncOption.unwrap" -> Option_unwrap(o, <<>>)
      [] op = "AsyncOption.unwrapOr" -> Option_unwrapOr(o, args[1])
      [] op = "AsyncOption.unwrapOrElse" -> Option_unwrapOrElse(o, AsSync(args[1], Nullary))
      [] op = "AsyncOption.map" -> Option_map(o, AsSync(args[1], Unary))
      [] op = "AsyncOption.mapOr" -> Option_mapOr(o, args[1], AsSync(args[2], Unary))
      [] op = "AsyncOption.mapOrElse" ->
            Option_mapOrElse(o, AsSync(args[1], Nullary), AsSync(args[2], Unary))
      [] op = "AsyncOption.filter" -> Option_filter(o, AsSync(args[1], Unary))
      [] op = "AsyncOption.and" -> Option_and(o, b)
      [] op = "AsyncOption.andThen" -> Option_andThen(o, [a \in Unary |-> Return(b)])
      [] op = "AsyncOption.or" -> Option_or(o, b)
      [] op = "AsyncOption.orElse" -> Option_orElse(o, [a \in Nullary |-> Return(b)])
      [] op = "AsyncOption.xor" -> Option_xor(o, b)
      [] op = "AsyncOption.zip" -> Option_zip(o, b)
      [] op = "AsyncOption.zipWith" -> Option_zipWith(o, b, Unawaited(args[1], Pairs))
      [] op = "AsyncOption.okOr" -> Option_okOr(o, args[1])

MirroredOptionOps ==
    {"AsyncOption.isSome", "AsyncOption.isSomeAnd", "AsyncOption.isNone",
     "AsyncOption.isNoneOr", "AsyncOption.unwrap", "AsyncOption.unwrapOr",
     "AsyncOption.unwrapOrElse", "AsyncOption.map", "AsyncOption.mapOr",
     "AsyncOption.mapOrElse", "AsyncOption.filter", "AsyncOption.and",
     "AsyncOption.andThen", "AsyncOption.or", "AsyncOption.orElse", "AsyncOption.xor",
     "AsyncOption.zip", "AsyncOption.zipWith", "AsyncOption.okOr"}

Result_mirror(op, r, args, b) ==
    CASE op = "AsyncResult.isOk" -> Result_isOk(r)
      [] op = "AsyncResult.isOkAnd" -> Result_isOkAnd(r, AsSync(args[1], Unary))
      [] op = "AsyncResult.isErr" -> Result_isErr(r)
      [] op = "AsyncResult.isErrAnd" -> Result_isErrAnd(r, AsSync(args[1], Unary))
      [] op = "AsyncResult.ok" -> Result_ok(r)
      [] op = "AsyncResult.err" -> Result_err(r)
      [] op = "AsyncResult.map" -> Result_map(r, AsSync(args[1], Unary))
      [] op = "AsyncResult.mapOr" -> Result_mapOr(r, args[1], AsSync(args[2], Unary))
      [] op = "AsyncResult.mapOrElse" ->
            Result_mapOrElse(r, AsSync(args[1], Unary), AsSync(args[2], Unary))
      [] op = "AsyncResult.mapErr" -> Result_mapErr(r, AsSync(args[1], Unary))
      [] op = "AsyncResult.inspect" -> Result_inspect(r, AsSync(args[1], Unary))
      [] op = "AsyncResult.inspectErr" -> Result_inspectErr(r, AsSync(args[1], Unary))
      [] op = "AsyncResult.unwrap" -> Result_unwrap(r, args)
      [] op = "AsyncResult.unwrapErr" -> Result_unwrapErr(r, args)
      [] op = "AsyncResult.unwrapOr" -> Result_unwrapOr(r, args[1])
      [] op = "AsyncResult.unwrapOrElse" -> Result_unwrapOrElse(r, AsSync(args[1], Unary))
      [] op = "AsyncResult.and" -> Result_and(r, b)
      [] op = "AsyncResult.andThen" -> Result_andThen(r, [a \in Unary |-> Return(b)])
      [] op = "AsyncResult.chain" -> Result_chain(r, [a \in Unary |-> Return(b)])
      [] op = "AsyncResult.or" -> Result_or(r, b)
      [] op = "AsyncResult.orElse" -> Result_orElse(r, [a \in Unary |-> Return(b)])

MirroredResultOps ==
    {"AsyncResult.isOk", "AsyncResult.isOkAnd", "AsyncResult.isErr", "AsyncResult.isErrAnd",
     "AsyncResult.ok", "AsyncResult.err", "AsyncResult.map", "AsyncResult.mapOr",
     "AsyncResult.mapOrElse", "AsyncResult.mapErr", "AsyncResult.inspect",
     "AsyncResult.inspectErr", "AsyncResult.unwrap", "AsyncResult.unwrapErr",
     "AsyncResult.unwrapOr", "AsyncResult.unwrapOrElse", "AsyncResult.and",
     "AsyncResult.andThen", "AsyncResult.chain", "AsyncResult.or", "AsyncResult.orElse"}

CombinatorOps ==
    {"AsyncOption.map", "AsyncOption.inspect", "AsyncOption.inspect.then",
     "AsyncOption.filter", "AsyncOption.okOr", "AsyncOption.and", "AsyncOption.andThen",
     "AsyncOption.or", "AsyncOption.orElse", "AsyncOption.xor", "AsyncOption.zip",
     "AsyncOption.zipWith", "AsyncResult.ok", "AsyncResult.err", "AsyncResult.map",
     "AsyncResult.mapErr", "AsyncResult.inspect", "AsyncResult.inspectErr",
     "AsyncResult.and", "AsyncResult.andThen", "AsyncResult.chain", "AsyncResult.or",
     "AsyncResult.orElse"}

\* A step of a combinator call leaves the receiver as it is: the same wrapper,
\* and once its promise has settled the same variant and payload.
ReceiverUnchanged ==
    [][R'.op \in CombinatorOps =>
          /\ A'.cls = A.cls /\ A'.how = A.how
          /\ Settled(A.promise) => A' = A]_vars

\* C19: every combinator returns a new wrapper, an object other than its
\* receiver, and leaves its receiver unchanged.
C19_combinators_return_new_wrapper ==
    [][R'.op \in CombinatorOps =>
          /\ R'.cls \in {"AsyncOption", "AsyncResult"}
          /\ A'.cls = A.cls /\ A'.how = A.how
          /\ Settled(A.promise) => A' = A]_vars

\* C20: ok(v).ok() is some(v) and ok(v).err() is none(); err(e).ok() is none()
\* and err(e).err() is some(e); so exactly one of r.ok() and r.err() is a Some,
\* for every Result r.
C20_result_projections ==
    /\ sync.op = "Result.ok" =>
          /\ sync.out.kind = "return" /\ sync.out.calls = <<>>
          /\ IF sync.self.tag = "Ok"
             THEN sync.out.val.tag = "Some" /\ sync.out.val.value = sync.self.value
             ELSE sync.out.val.tag = "None"
    /\ sync.op = "Result.err" =>
          /\ sync.out.kind = "return" /\ sync.out.calls = <<>>
          /\ IF sync.self.tag = "Err"
             THEN sync.out.val.tag = "Some" /\ sync.out.val.value = sync.self.error
             ELSE sync.out.val.tag = "None"
    /\ \A r \in Results :
          (Result_ok(r).val.tag = "Some") # (Result_err(r).val.tag = "Some")

\* ok(1).ok() has returned some(1).
C20_witness ==
    /\ sync.op = "Result.ok" /\ sync.self.tag = "Ok" /\ sync.self.value = 1
    /\ sync.out.kind = "return" /\ sync.out.val.tag = "Some" /\ sync.out.val.value = 1

\* C21: a.and(b) is b when a is a Some and none() otherwise; a.andThen(fn)
\* calls fn once with the value and completes as fn does when a is a Some, and
\* is none() with fn not invoked otherwise; a.or(b) is a when a is a Some and b
\* otherwise; a.orElse(fn) is a, with fn not invoked, when a is a Some, and
\* otherwise calls fn once and completes as fn does.
C21_short_circuit ==
    LET a == sync.self
        isSome == a.tag = "Some"
    IN  /\ sync.op = "Option.and" =>
              /\ sync.out.kind = "return" /\ sync.out.calls = <<>>
              /\ sync.out.val = IF isSome THEN sync.args[1] ELSE none
        /\ sync.op = "Option.andThen" =>
              IF isSome
              THEN LET c == sync.args[1][<<a.value>>]
                   IN  /\ sync.out.calls = <<[fn |-> "fn", args |-> <<a.value>>]>>
                       /\ sync.out.kind = c.kind /\ sync.out.val = c.val
              ELSE /\ sync.out.kind = "return" /\ sync.out.calls = <<>>
                   /\ sync.out.val = none
        /\ sync.op = "Option.or" =>
              /\ sync.out.kind = "return" /\ sync.out.calls = <<>>
              /\ sync.out.val = IF isSome THEN a ELSE sync.args[1]
        /\ sync.op = "Option.orElse" =>
              IF isSome
              THEN /\ sync.out.kind = "return" /\ sync.out.calls = <<>>
                   /\ sync.out.val = a
              ELSE LET c == sync.args[1][<<>>]
                   IN  /\ sync.out.calls = <<[fn |-> "fn", args |-> <<>>]>>
                       /\ sync.out.kind = c.kind /\ sync.out.val = c.val

\* none().or(some(1)) has returned some(1).
C21_witness ==
    /\ sync.op = "Option.or" /\ sync.self.tag = "None"
    /\ sync.args[1].tag = "Some" /\ sync.args[1].value = 1
    /\ sync.out.kind = "return" /\ sync.out.val.tag = "Some" /\ sync.out.val.value = 1

\* The four total extractions of Option.
TotalOps == {"Option.unwrapOr", "Option.unwrapOrElse", "Option.mapOr", "Option.mapOrElse"}

\* C22: unwrapOr(d) returns the value of a Some and d for a None, invoking
\* nothing; unwrapOrElse(fn) returns the value of a Some without invoking fn,
\* and fn() for a None; mapOr(d, fn) is fn(value) for a Some and d, with fn not
\* invoked, for a None; mapOrElse(dfn, fn) is fn(value) for a Some and dfn()
\* for a None.  Each invokes at most one callback, the one of the receiver's
\* variant, once; none throws anything but what that callback threw, so none
\* throws an UnwrapError.
C22_total_extraction ==
    LET a == sync.self
        isSome == a.tag = "Some"
        called(h, args) == sync.out.calls = <<[fn |-> h, args |-> args]>>
        completes(c) == sync.out.kind = c.kind /\ sync.out.val = c.val
        returns(v) == sync.out.kind = "return" /\ sync.out.calls = <<>> /\ sync.out.val = v
    IN  /\ sync.op = "Option.unwrapOr" =>
              returns(IF isSome THEN a.value ELSE sync.args[1])
        /\ sync.op = "Option.unwrapOrElse" =>
              IF isSome THEN returns(a.value)
              ELSE called("fn", <<>>) /\ completes(sync.args[1][<<>>])
        /\ sync.op = "Option.mapOr" =>
              IF isSome THEN called("fn", <<a.value>>) /\ completes(sync.args[2][<<a.value>>])
              ELSE returns(sync.args[1])
        /\ sync.op = "Option.mapOrElse" =>
              IF isSome
              THEN called("someFn", <<a.value>>) /\ completes(sync.args[2][<<a.value>>])
              ELSE called("defaultFn", <<>>) /\ completes(sync.args[1][<<>>])
        /\ (sync.op \in TotalOps /\ sync.out.kind = "throw") =>
              Len(sync.out.calls) = 1 /\ sync.out.val \in CallbackErrors

\* some(0).mapOr(1, fn) has called fn(0) and returned the 0 it returned, not
\* the default.
C22_witness ==
    /\ sync.op = "Option.mapOr" /\ sync.self.tag = "Some" /\ sync.self.value = 0
    /\ sync.args[1] = 1 /\ sync.args[2][<<0>>] = Return(0)
    /\ Len(sync.out.calls) = 1 /\ sync.out.kind = "return" /\ sync.out.val = 0

\* C23: isSomeAnd(p) on a Some calls p once with the value and answers as p
\* does, and on a None is false with p not invoked, so it is true exactly when
\* the Option is a Some and p(value) is true; isNoneOr(p) on a Some answers as
\* p(value) does and on a None is true with p not invoked; isOkAnd(p) answers
\* as p(value) does on an Ok and isErrAnd(p) as p(error) does on an Err, and
\* each is false, with p not invoked, on the other variant.
C23_predicate_gated ==
    LET a == sync.self
        p == sync.args[1]
        asks(x) == /\ sync.out.calls = <<[fn |-> "fn", args |-> <<x>>]>>
                   /\ sync.out.kind = p[<<x>>].kind /\ sync.out.val = p[<<x>>].val
        answers(b) == sync.out.kind = "return" /\ sync.out.calls = <<>> /\ sync.out.val = b
    IN  /\ sync.op = "Option.isSomeAnd" =>
              /\ IF a.tag = "Some" THEN asks(a.value) ELSE answers(FALSE)
              /\ sync.out.kind = "return" =>
                    (sync.out.val <=> (a.tag = "Some" /\ p[<<a.value>>] = Return(TRUE)))
        /\ sync.op = "Option.isNoneOr" =>
              /\ IF a.tag = "Some" THEN asks(a.value) ELSE answers(TRUE)
              /\ sync.out.kind = "return" =>
                    (sync.out.val <=> (a.tag = "None" \/ p[<<a.value>>] = Return(TRUE)))
        /\ sync.op = "Result.isOkAnd" =>
              IF a.tag = "Ok" THEN asks(a.value) ELSE answers(FALSE)
        /\ sync.op = "Result.isErrAnd" =>
              IF a.tag = "Err" THEN asks(a.error) ELSE answers(FALSE)

\* none().isNoneOr(p) has answered true without calling p, a p that would have
\* answered false for 0.
C23_witness ==
    /\ sync.op = "Option.isNoneOr" /\ sync.self.tag = "None"
    /\ sync.out.kind = "return" /\ sync.out.val = TRUE /\ sync.out.calls = <<>>
    /\ sync.args[1][<<0>>] = Return(FALSE)

\* The elements an iteration of x is to produce: the value of a Some or an Ok,
\* nothing for a None or an Err.
Elements(x) == IF x.tag \in {"Some", "Ok"} THEN <<x.value>> ELSE <<>>

\* C24: every iterator asked of an Option or a Result hands out a prefix of
\* the one value of a Some or an Ok, or of nothing for a None or an Err,
\* whatever the other iterators of the same value have handed out; it reports
\* done at the next call once it has handed out all of it, and has then handed
\* out exactly that.  The async iterator of an AsyncOption or an AsyncResult
\* produces nothing while this.promise is pending; once the promise is
\* fulfilled it hands out the same elements and then reports done; when the
\* promise of an AsyncResult is rejected, the first next() rejects with the
\* reason and no element is produced.
C24_iteration ==
    /\ sync.op \in IteratorOps =>
          \A i \in DOMAIN sync.its :
             LET all == Elements(sync.self)
                 got == sync.seen[i]
             IN  /\ Len(got) <= Len(all) /\ got = SubSeq(all, 1, Len(got))
                 /\ sync.done[i] => got = all
                 /\ (~sync.done[i] /\ got = all) => Generator_next(sync.its[i]).result.done
    /\ R.op \in AsyncIteratorOps =>
          /\ R.pc = "awaitThis" => R.inner.st = "pending" /\ R.seen = <<>>
          /\ R.pc # "awaitThis" => Settled(A.promise)
          /\ (R.pc = "yielded" /\ A.promise.st = "fulfilled") =>
                /\ R.seen = <<>> /\ R.inner.st = "fulfilled" /\ ~R.inner.val.done
                /\ <<R.inner.val.value>> = Elements(A.promise.val)
          /\ (R.pc = "settled" /\ A.promise.st = "fulfilled") =>
                /\ R.seen = Elements(A.promise.val)
                /\ R.inner.st = "fulfilled" /\ R.inner.val.done
          /\ (R.pc # "awaitThis" /\ A.promise.st = "rejected") =>
                /\ R.pc = "settled" /\ R.seen = <<>>
                /\ RejectedWith(R.inner, A.promise.val)

\* for await over an AsyncResult whose promise was fulfilled with ok(1) has
\* taken the element 1 and has been told done.
C24_witness ==
    /\ R.op = "AsyncResult.asyncIterator" /\ R.pc = "settled"
    /\ A.promise.st = "fulfilled" /\ A.promise.val.tag = "Ok"
    /\ R.seen = <<1>> /\ R.inner.val.done

\* The callback of the asynchronous call in progress threw, or the promise it
\* returned was rejected.
FnFailed ==
    R.args[1].kind = "throw" \/ (R.args[1].kind = "promise" /\ R.fnp.st = "rejected")

\* What the claim C25 says of AsyncOption.inspect holds of the calls whose
\* callback does not fail: fn is called once with the value of a Some and not
\* at all for a None, the wrapper returned resolves to the Option the receiver
\* resolved to, and it is pending as long as the promise fn returned is.
InspectUnchanged(anyFn) ==
    /\ (R.op = "AsyncOption.inspect" /\ R.pc = "settled") =>
          LET this == A.promise.val
          IN  /\ R.calls = IF this.tag = "Some"
                           THEN <<[fn |-> "fn", args |-> <<this.value>>]>> ELSE <<>>
              /\ (anyFn \/ this.tag = "None" \/ ~FnFailed) =>
                    /\ R.promise.st = "fulfilled" /\ R.promise.val.tag = this.tag
                    /\ this.tag = "Some" => R.promise.val.value = this.value
    /\ (R.op = "AsyncOption.inspect" /\ R.pc = "awaitFn" /\ R.fnp.st = "pending") =>
          R.promise.st = "pending"

InspectUnchangedUnlessFnFails == InspectUnchanged(FALSE)

\* C25: inspect(fn) of an Option or a Result calls fn once, with the payload,
\* when the receiver is a Some or an Ok, and does not call it otherwise; what
\* it returns has the variant and the payload of the receiver.  The same holds
\* of AsyncOption.inspect, for any fn, once the wrapper it returned has
\* settled, and that wrapper does not settle before a promise fn returned.
C25_inspect_unchanged ==
    /\ sync.op \in {"Option.inspect", "Result.inspect"} =>
          /\ sync.out.calls = IF sync.self.tag \in {"Some", "Ok"}
                              THEN <<[fn |-> "fn", args |-> <<sync.self.value>>]>>
                              ELSE <<>>
          /\ sync.out.kind = "return" => sync.out.val = sync.self
    /\ InspectUnchanged(TRUE)

\* The combinators of AsyncOption that depend on two pending promises.
TwoOperandOps == {"AsyncOption.xor", "AsyncOption.zip", "AsyncOption.zipWith"}

\* What such a call is to resolve to, given what the two promises resolved to.
Combined(op, a, b, fn) ==
    CASE op = "AsyncOption.xor" -> Option_xor(a, b).val
      [] op = "AsyncOption.zip" -> Option_zip(a, b).val
      [] OTHER -> IF a.tag = "Some" /\ b.tag = "Some" /\ fn.kind # "throw"
                  THEN some(fn.val) ELSE none

\* C26: a call of AsyncOption.xor, zip or zipWith that has settled resolved to
\* a value that depends only on what this.promise and the promise of optionB
\* resolved to (and on fn), whichever of the two settled first; it does not
\* settle before this.promise, nor before the promise of optionB when it
\* consults it, and it waits for nothing else: once both have settled it is
\* settled or ready to take its next step.
C26_no_ordering ==
    R.op \in TwoOperandOps =>
        LET a == A.promise.val
            consultsB == R.op = "AsyncOption.xor" \/ a.tag = "Some"
            fn == IF R.op = "AsyncOption.zipWith" THEN R.args[1] ELSE Return(Null)
        IN  /\ R.pc = "settled" =>
                  /\ A.promise.st = "fulfilled"
                  /\ consultsB => B.promise.st = "fulfilled"
                  /\ R.promise.st = "fulfilled"
                  /\ LET r == IF consultsB THEN Combined(R.op, a, B.promise.val, fn) ELSE none
                     IN  /\ R.promise.val.tag = r.tag
                         /\ r.tag = "Some" => R.promise.val.value = r.value
            /\ R.pc \in {"awaitThis", "awaitB", "settled"}
            /\ R.pc = "awaitThis" => R.promise.st = "pending"
            /\ R.pc = "awaitB" => R.promise.st = "pending" /\ Settled(A.promise)

\* a.xor(b) has resolved to some(1): the promise of b settled first, with
\* none(), and the promise of a after it, with some(1).
C26_witness ==
    /\ R.op = "AsyncOption.xor" /\ R.pc = "settled" /\ B.order = "first"
    /\ A.promise.val.tag = "Some" /\ A.promise.val.value = 1 /\ B.promise.val.tag = "None"
    /\ R.promise.st = "fulfilled" /\ R.promise.val.tag = "Some" /\ R.promise.val.value = 1

\* The promises of the AsyncOptions that ok() and err() of the wrapper A
\* return, once this.promise of A has settled.
Projection_ok == Returned("AsyncOption", AsyncResult_ok(A.promise).inner)

Projection_err == Returned("AsyncOption", AsyncResult_err(A.promise).inner)

\* C27: once a call of ok() or err() on an AsyncResult has settled, the
\* AsyncOption it returned is fulfilled, never rejected.  When this.promise was
\* rejected it resolved to none(), and so do both projections; when
\* this.promise was fulfilled, ok() resolved to some(value) for an Ok and to
\* none() for an Err, err() to some(error) for an Err and to none() for an Ok,
\* so exactly one of the two projections is a Some.
C27_projections_of_rejection ==
    (R.op \in {"AsyncResult.ok", "AsyncResult.err"} /\ R.pc = "settled") =>
        LET this == A.promise
            r == R.promise
        IN  /\ r.st = "fulfilled"
            /\ Projection_ok.st = "fulfilled" /\ Projection_err.st = "fulfilled"
            /\ r.val.tag = (IF R.op = "AsyncResult.ok" THEN Projection_ok ELSE Projection_err).val.tag
            /\ this.st = "rejected" =>
                  /\ r.val.tag = "None"
                  /\ Projection_ok.val.tag = "None" /\ Projection_err.val.tag = "None"
            /\ this.st = "fulfilled" =>
                  /\ (Projection_ok.val.tag = "Some") # (Projection_err.val.tag = "Some")
                  /\ (r.val.tag = "Some") <=>
                        (this.val.tag = (IF R.op = "AsyncResult.ok" THEN "Ok" ELSE "Err"))
                  /\ r.val.tag = "Some" =>
                        r.val.value = (IF R.op = "AsyncResult.ok" THEN this.val.value
                                       ELSE this.val.error)

\* err() of an AsyncResult whose promise was rejected with 1 has resolved to
\* none().
C27_witness ==
    /\ R.op = "AsyncResult.err" /\ R.pc = "settled"
    /\ A.promise.st = "rejected" /\ A.promise.val = 1
    /\ R.inner.st = "rejected" /\ R.promise.st = "fulfilled" /\ R.promise.val.tag = "None"

\* C28: as soon as a call of AsyncOption.and, zip or zipWith has gone past its
\* await of this.promise on a receiver that resolved to none(), it has settled
\* and resolved to none(), without invoking fn and whatever the state of
\* optionB's promise; in the same way AsyncOption.or on a receiver that
\* resolved to some(v) has resolved to some(v), and AsyncResult.or on a
\* receiver that resolved to ok(v) has resolved to ok(v), whether the promise
\* of the other operand is pending, fulfilled or rejected.
C28_async_short_circuit ==
    LET this == A.promise
        past == R.pc # "awaitThis" /\ this.st = "fulfilled"
        done == R.pc = "settled" /\ R.calls = <<>> /\ R.promise.st = "fulfilled"
    IN  /\ (R.op \in {"AsyncOption.and", "AsyncOption.zip", "AsyncOption.zipWith"}
              /\ past /\ this.val.tag = "None") =>
              done /\ R.promise.val.tag = "None"
        /\ (R.op = "AsyncOption.or" /\ past /\ this.val.tag = "Some") =>
              /\ done /\ R.promise.val.tag = "Some"
              /\ R.promise.val.value = this.val.value
        /\ (R.op = "AsyncResult.or" /\ past /\ this.val.tag = "Ok") =>
              /\ done /\ R.promise.val.tag = "Ok"
              /\ R.promise.val.value = this.val.value

\* a.or(b) on an AsyncResult a that resolved to ok(1) has resolved to ok(1);
\* the promise of b was rejected.
C28_witness ==
    /\ R.op = "AsyncResult.or" /\ R.pc = "settled"
    /\ A.promise.st = "fulfilled" /\ A.promise.val.tag = "Ok" /\ A.promise.val.value = 1
    /\ B.promise.st = "rejected"
    /\ R.promise.st = "fulfilled" /\ R.promise.val.tag = "Ok" /\ R.promise.val.value = 1

PromiseReturningOps ==
    {"AsyncOption.match", "AsyncOption.isSomeAnd", "AsyncOption.isNoneOr",
     "AsyncOption.unwrapOrElse", "AsyncOption.mapOr", "AsyncOption.mapOrElse"}

AbsorbingOps ==
    {"AsyncOption.inspect", "AsyncOption.filter", "AsyncOption.andThen",
     "AsyncOption.orElse", "AsyncOption.zipWith"}

\* The callback the call in progress has invoked, when it has invoked one.
Invoked ==
    LET h == R.calls[1].fn
    IN  CASE R.op = "AsyncOption.match" -> R.args[1][h]
          [] R.op = "AsyncOption.mapOrElse" -> IF h = "defaultFn" THEN R.args[1] ELSE R.args[2]
          [] R.op = "AsyncOption.mapOr" -> R.args[2]
          [] OTHER -> R.args[1]

\* It threw, or (rejects) the promise it returned has been rejected.
InvokedFailed(rejects) ==
    /\ R.calls # <<>>
    /\ Invoked.kind = "throw" \/ (rejects /\ Invoked.kind = "promise" /\ R.fnp.st = "rejected")

InvokedError == IF Invoked.kind = "throw" THEN Invoked.val ELSE R.fnp.val

\* A settled call of a promise-returning operation whose callback failed has
\* rejected with the callback's error; a settled call of a combinator whose
\* callback failed, or returned a wrapper of a promise that rejected, has
\* resolved to none().  zipWithAwaits tells whether a promise the callback of
\* zipWith returned counts as awaited.
Absorption(zipWithAwaits) ==
    (R.op \in PromiseReturningOps \cup AbsorbingOps /\ R.pc = "settled") =>
        /\ (R.op \in PromiseReturningOps /\ InvokedFailed(TRUE)) =>
              RejectedWith(R.promise, InvokedError)
        /\ (R.op \in AbsorbingOps
              /\ InvokedFailed(R.op # "AsyncOption.zipWith" \/ zipWithAwaits)) =>
              R.promise.st = "fulfilled" /\ R.promise.val.tag = "None"
        /\ (R.op \in {"AsyncOption.andThen", "AsyncOption.orElse"} /\ R.calls # <<>>
              /\ R.args[1].kind = "return" /\ B.src.st = "rejected") =>
              R.promise.st = "fulfilled" /\ R.promise.val.tag = "None"

\* What holds of the code: as the claim C29 says, but zipWith absorbs only
\* what fn throws.
AbsorptionOfAwaitedCallbacks == Absorption(FALSE)

\* C29: when the callback it invoked throws or returns a promise that rejects,
\* a call of match, isSomeAnd, isNoneOr, unwrapOrElse, mapOr or mapOrElse of
\* AsyncOption rejects with the callback's error, and a call of inspect,
\* filter, andThen, orElse or zipWith resolves to none().
C29_absorption_only_in_wrappers == Absorption(TRUE)

\* A call is in progress, and its method returned a promise or a wrapper.
CallInProgress == R.op # "none" /\ R.pc # "threw"

\* The promise of its async function has settled, and so has what the caller
\* holds: the promise returned, or this.promise of the wrapper returned.
CallSettled == R.op # "none" /\ Settled(R.inner) /\ Settled(R.promise)

\* A call that has not settled is suspended at the await of this.promise, of
\* the promise its callback returned or of the promise of its operand, and at
\* nothing else; the promise it waits for is pending, or its next step is due.
WaitsOnlyOnPromises ==
    (CallInProgress /\ ~CallSettled) =>
        \/ R.pc = "awaitThis"
        \/ R.pc = "awaitFn" /\ Len(R.calls) > 0
        \/ R.pc = "awaitB" /\ B # NoWrapper

=============================================================================
